---- MODULE Spec2Model ----
(***************************************************************************)
(* Reconciler of argo-ephemeral-operator: the phase state machine of one   *)
(* EphemeralApplication record, the object store (record, namespaces) and  *)
(* the ArgoCD application API it drives.  One action per store / ArgoCD    *)
(* call of internal/controller/ephemeralapplication_controller.go; the     *)
(* local computation that follows a call (finalizer test, expiry test,     *)
(* phase switch, in-memory status assignments) belongs to that call's      *)
(* action.                                                                 *)
(***************************************************************************)
EXTENDS Integers, Sequences, FiniteSets, TLC

(* ---------------- bounds ---------------- *)

\* the clock runs 0..MaxNow; expiration dates are 0..MaxNow-1, so every
\* expiration date is eventually in the past
MaxNow == 2

\* concurrent callers of the ArgoCD adapter
NumCallers == 2

\* session tokens the ArgoCD server issues in one behaviour
MaxTokens == 2

\* references in the list handed to one provisioning call
MaxRefs == 2

\* characters by which a name handed to the name generator exceeds 63
MaxOver == 1

(* ---------------- program constants ---------------- *)

\* handlePendingPhase / handleCreatingPhase: RequeueAfter: 30 * time.Second
RequeueCreating == 30
\* Config.ReconcileInterval default: 5 * time.Minute, in seconds
ReconcileInterval == 300
\* GenerateNamespace: maxLength := 63
maxLength == 63

(* ---------------- names ---------------- *)

\* strings are sequences of one-character strings
EmptyStr == <<>>

\* the characters that occur in the names of this model
Alphabet ==
    {"A", "M", "P", "a", "b", "c", "d", "e", "g", "h", "i", "l", "m", "n",
     "o", "p", "r", "s", "t", "y", "1", "-", "_", ".", "/", " ", ">", "(", ")"}

\* unicode.ToLower of one character
Lower ==
    [c \in Alphabet |->
        CASE c = "A" -> "a"
          [] c = "M" -> "m"
          [] c = "P" -> "p"
          [] OTHER -> c]

\* strings.ToLower
ToLower(s) == [i \in 1..Len(s) |-> Lower[s[i]]]

\* strings.ReplaceAll(s, "_", "-")
ReplaceUnderscore(s) == [i \in 1..Len(s) |-> IF s[i] = "_" THEN "-" ELSE s[i]]

\* metadata.name of the record, and the default prefix "ephemeral" (abridged)
RecName == <<"a", "p", "p", "1">>
DefaultPrefix == <<"e", "p", "h">>

\* the call does not return: prefix[:maxLength] of a prefix of 62
\* characters is a slice beyond the end of the string, a run-time panic
Panic == <<"panic: slice bounds out of range">>

\* DefaultNameGenerator.GenerateNamespace(prefix, suffix)
GenerateNamespace(prefix, suffix) ==
    LET sanitized == ReplaceUnderscore(ToLower(suffix))
        combined == prefix \o <<"-">> \o sanitized
        allowedSuffixLen == maxLength - Len(prefix) - 1
    IN  IF Len(combined) > maxLength
        THEN IF allowedSuffixLen > 0
             THEN prefix \o <<"-">> \o SubSeq(sanitized, 1, allowedSuffixLen)
             ELSE IF Len(prefix) < maxLength THEN Panic
             ELSE SubSeq(prefix, 1, maxLength)
        ELSE combined

\* the prefix "ephemeral" of a name generated without a hint
Ephemeral == <<"e", "p", "h", "e", "m", "e", "r", "a", "l">>

\* DefaultNameGenerator.GenerateNamespace(namespaceName, _) of the generator
\* that takes the whole name; random is what g.rnd draws
GenerateNamespaceName(namespaceName, random) ==
    IF namespaceName # EmptyStr
    THEN LET sanitized == ReplaceUnderscore(ToLower(namespaceName))
         IN  IF Len(sanitized) > 63 THEN SubSeq(sanitized, 1, 63) ELSE sanitized
    ELSE Ephemeral \o <<"-">> \o random

\* getNamespacePrefix
getNamespacePrefix(e) ==
    IF e.namespacePrefix # EmptyStr THEN e.namespacePrefix ELSE DefaultPrefix

(* ---------------- errors ---------------- *)

NoErr == [lib |-> "none", reason |-> "none"]
\* errors of the object store (k8s.io/apimachinery StatusError)
ErrNotFound == [lib |-> "k8s", reason |-> "NotFound"]
ErrAlreadyExists == [lib |-> "k8s", reason |-> "AlreadyExists"]
ErrConflict == [lib |-> "k8s", reason |-> "Conflict"]
ErrInternal == [lib |-> "k8s", reason |-> "InternalError"]
\* errors the ArgoCD adapter returns: the gRPC status error of the call
\* as is (DeleteApplication), or a fmt.Errorf("...: %v", err) text
\* (CreateApplication, connection failures)
ErrGrpcNotFound == [lib |-> "grpc", reason |-> "NotFound"]
ErrGrpcUnavailable == [lib |-> "grpc", reason |-> "Unavailable"]
ErrAppNotCreated == [lib |-> "fmt", reason |-> "application can not be created"]
ErrNoConnection == [lib |-> "fmt", reason |-> "failed to open a connection"]

\* variant: every error of a delete is taken for not-found
IsNotFound_AnyError(err) == err # NoErr

\* apimachinery errors.IsNotFound: true of an APIStatus error whose reason
\* is NotFound; an error of another library carries no APIStatus
IsNotFound(err) == err.lib = "k8s" /\ err.reason = "NotFound"

\* variant: no error counts as already-exists
IsAlreadyExists_Never(err) == FALSE

\* apimachinery errors.IsAlreadyExists
IsAlreadyExists(err) == err.lib = "k8s" /\ err.reason = "AlreadyExists"

(* ---------------- the record ---------------- *)

NoTime == -1

\* a nil slice, and a slice of items
NilSlice == [isNil |-> TRUE, items |-> <<>>]
Slice(items) == [isNil |-> FALSE, items |-> items]

EmptyStatus ==
    [phase |-> "",
     copiedSecrets |-> NilSlice,
     copiedConfigMaps |-> NilSlice,
     namespace |-> EmptyStr,
     argoApplicationName |-> EmptyStr,
     conditions |-> <<>>,
     message |-> [text |-> "", err |-> NoErr],
     lastSyncTime |-> NoTime]

\* variant: the condition is appended whether or not its type is present
setCondition_AlwaysAppends(conds, conditionType, status, reason, message, t) ==
    Append(conds, [type |-> conditionType, status |-> status,
                   reason |-> reason, message |-> message,
                   lastTransitionTime |-> t])

\* setCondition: replace the condition of that type in place, else append
setCondition(conds, conditionType, status, reason, message, t) ==
    LET condition == [type |-> conditionType, status |-> status,
                      reason |-> reason, message |-> message,
                      lastTransitionTime |-> t]
        idx == {i \in 1..Len(conds) : conds[i].type = conditionType}
    IN  IF idx # {}
        THEN LET first == CHOOSE i \in idx : \A j \in idx : i <= j
             IN  [conds EXCEPT ![first] = condition]
        ELSE Append(conds, condition)

\* the clock reads 0 when the record is created; PastDate is a date before
\* that, the date of a record that is created already expired
PastDate == -1

\* variant: the record counts as expired at its expiration date already
isExpired_AtTheDate(e, t) == t >= e.expirationDate

\* isExpired: time.Now().After(ephApp.Spec.ExpirationDate.Time)
isExpired(e, t) == t > e.expirationDate

(* ---------------- references and provisioned objects ---------------- *)

\* an empty map (no values, no data, no labels)
NoData == << >>

\* []byte(value): the UTF-8 bytes of a (one-letter) string value
Utf8 == ("v" :> <<118>>) @@ ("w" :> <<119>>)
StringToBytes(str) == Utf8[str]

\* the namespace "infra" (abridged) that shared objects are copied from
Infra == <<"i", "n", "f">>

\* SecretReference values of the record's spec.secrets
SecretDbRenamed ==
    [name |-> "db", sourceNamespace |-> Infra, targetName |-> "db-copy",
     values |-> NoData]
SecretInline ==
    [name |-> "db-copy", sourceNamespace |-> EmptyStr, targetName |-> "",
     values |-> ("k" :> "v")]
SecretInlineAndSource ==
    [name |-> "db", sourceNamespace |-> Infra, targetName |-> "db-copy",
     values |-> ("k" :> "w")]
\* the two references of the documented example
SecretDb ==
    [name |-> "db", sourceNamespace |-> Infra, targetName |-> "",
     values |-> NoData]
SecretNamedInline ==
    [name |-> "inline", sourceNamespace |-> EmptyStr, targetName |-> "",
     values |-> ("k" :> "v")]
SecretNowhere ==
    [name |-> "none", sourceNamespace |-> EmptyStr, targetName |-> "",
     values |-> NoData]

\* ConfigMapReference values of the record's spec.configMaps
ConfigMapSettings ==
    [name |-> "settings", sourceNamespace |-> Infra, data |-> NoData]
ConfigMapInline ==
    [name |-> "settings", sourceNamespace |-> EmptyStr, data |-> ("k" :> "v")]
ConfigMapInlineAndSource ==
    [name |-> "settings", sourceNamespace |-> Infra, data |-> ("k" :> "w")]

\* the shared objects of namespace infra before any pass
SourceObjects ==
    (<<"Secret", Infra, "db">> :>
        [type |-> "kubernetes.io/tls", data |-> ("k" :> StringToBytes("v")),
         labels |-> NoData, annotations |-> NoData])
    @@ (<<"ConfigMap", Infra, "settings">> :>
        [type |-> "", data |-> ("k" :> "v"),
         labels |-> NoData, annotations |-> NoData])

\* a nil pointer or a nil slice in a field of a query
Nil == "nil"

\* a pointer to a struct: nil, or the struct it points to
NilPtr == <<>>
PtrTo(v) == <<v>>
Deref(ptr) == ptr[1]

\* the reference lists and the sync policy a record is created with:
\* nothing given, or references and a policy that turns automation off
RecSpecs ==
    {[secrets |-> <<>>, configMaps |-> <<>>, syncPolicy |-> NilPtr],
     [secrets |-> <<SecretDb, SecretNamedInline>>,
      configMaps |-> <<ConfigMapInline>>,
      syncPolicy |->
          PtrTo([automated |-> PtrTo([prune |-> FALSE, selfHeal |-> FALSE])])]}

\* no ApplicationCreateRequest submitted yet
NoRequest ==
    [name |-> EmptyStr, namespace |-> EmptyStr, prune |-> FALSE,
     selfHeal |-> FALSE, ignoreDifferences |-> <<>>]

\* no provisioning call in flight.  call: copySecrets or copyConfigMaps;
\* eph, target: its arguments while it runs; n: the length of its reference
\* list; i: the position of the reference the loop is at; err, failed: the
\* error returned and the reference its text names; o: how the store
\* answered the last reference; did: what the copy of that reference did
\* (created, updated, failed)
NoEph == [name |-> EmptyStr, secrets |-> <<>>, configMaps |-> <<>>]

ProvIdle ==
    [pc |-> "idle", call |-> "none", eph |-> NoEph, target |-> EmptyStr,
     n |-> 0, i |-> 0, err |-> NoErr, failed |-> "", o |-> "none",
     did |-> "none"]

NoCaller == 0

VARIABLES
    rec,        \* the record as persisted in the object store
    namespaces, \* names of the namespaces that exist
    argoApps,   \* name -> [sync, health] of the ArgoCD applications that exist
    now,        \* the clock
    pc,         \* position of the in-flight pass ("idle": none in flight)
    ephApp,     \* the pass's in-memory copy of the record
    stale,      \* the stored record was written by someone else since the
                \* pass read it (its resourceVersion is ahead of ephApp's)
    calls,      \* the store / ArgoCD calls of the current (or last) pass
    result,     \* what the last pass returned
    createdNs,  \* namespaces created by a pass and still existing
    createdApps \* applications created by a pass and still existing

VARIABLES
    request,    \* the ApplicationCreateRequest last submitted by a pass
    objects,    \* the secrets and config maps of the object store, by
                \* <<kind, namespace, name>>
    prov        \* the provisioning call (copySecrets / copyConfigMaps) in flight

VARIABLES
    argocdClient, \* clientImpl.argocdClient: the token its connections carry
    tokenLock,    \* clientImpl.tokenLock: the caller holding it, or NoCaller
    validTokens,  \* the session tokens the ArgoCD server still accepts
    issued,       \* the number of tokens the session endpoint has issued
    thr,          \* the DoRequestWithRetry call of each concurrent caller
    logins,       \* the re-logins made: [caller, rejected], rejected being
                  \* the token whose rejection caused it
    down          \* the process has exited (log.Fatalf)

VARIABLES
    http,       \* the HTTP request the API server served last: its path,
                \* its Authorization header, and what became of it
    applied     \* the helper function applied last: its input and output

VARIABLES
    fleet,           \* several records side by side, by <<namespace, name>>
    fleetNamespaces, \* the namespaces of the cluster they share
    fleetApps        \* the applications of the ArgoCD server they share, by
                     \* name: the destination namespace of each

reconcilerVars == <<rec, namespaces, argoApps, now, pc, ephApp, stale, calls,
                    result, createdNs, createdApps, request>>

provVars == <<objects, prov>>

clientVars == <<argocdClient, tokenLock, validTokens, issued, thr, logins, down>>

apiVars == <<http>>

fnVars == <<applied>>

fleetVars == <<fleet, fleetNamespaces, fleetApps>>

vars == <<rec, namespaces, argoApps, now, pc, ephApp, stale, calls, result,
          createdNs, createdApps, request, provVars, clientVars, apiVars, fnVars,
          fleetVars>>

NoResult == [kind |-> "none", err |-> NoErr, requeueAfter |-> 0]
Crashed == [kind |-> "crash", err |-> NoErr, requeueAfter |-> 0]

\* continuation of a pass: go on at a call site, or return
Cont(p, e) == [pc |-> p, eph |-> e, ret |-> NoResult]
Ret(err, requeue, e) ==
    [pc |-> "idle", eph |-> e,
     ret |-> [kind |-> IF err = NoErr THEN "ok" ELSE "err",
              err |-> err, requeueAfter |-> requeue]]

Call(op, res) == [op |-> op, res |-> res]

\* the concurrent callers of the adapter
Callers == 1..NumCallers

NoToken == -1

\* application.ApplicationQuery: every field is a pointer or a slice
NoQuery ==
    [Name |-> Nil, AppNamespace |-> Nil, Refresh |-> Nil, Repo |-> Nil,
     ResourceVersion |-> Nil, Selector |-> Nil, Project |-> Nil, Projects |-> Nil]

\* no DoRequestWithRetry call of that caller in flight.  query: the query of
\* a GetApplication call; conn: the token of
\* the connection opened for the call; first / second: what the two
\* invocations of requestFunc returned; endpoint: whether the session
\* endpoint would accept the credentials when the call asked for a new
\* token; retry: the token the second invocation carried; refreshed:
\* another caller asked for a new token for the same rejected token while
\* this call was waiting for the lock
\* no request served yet.  review: what the TokenReview of the request's
\* token answered; handler: the handler the request reached
HttpIdle ==
    [pc |-> "idle", path |-> <<>>, header |-> <<>>, status |-> 0,
     handler |-> "none", review |-> "none"]

\* no helper function applied yet
NoApplication == [fn |-> "none", in |-> <<>>, out |-> <<>>]

CallIdle ==
    [pc |-> "idle", op |-> "none", query |-> NoQuery, conn |-> NoToken,
     attempts |-> 0, first |-> NoErr, second |-> NoErr, endpoint |-> "none",
     retry |-> NoToken, refreshed |-> FALSE, ret |-> NoErr]

\* metadata.namespace of the records: the resource is namespaced
TeamA == <<"a">>
TeamB == <<"b">>

\* the keys of the records that live side by side
FleetKeys == {<<TeamA, RecName>>, <<TeamB, RecName>>}

\* a record with the given name and prefix, as the user creates it
NewRecord(name, prefix) ==
    [exists |-> TRUE, name |-> name, namespacePrefix |-> prefix,
     finalizer |-> FALSE, deletionTimestamp |-> FALSE,
     expirationDate |-> MaxNow, secrets |-> <<>>, configMaps |-> <<>>,
     syncPolicy |-> NilPtr, status |-> EmptyStatus]

\* no record under that key
NoRecord == [NewRecord(EmptyStr, EmptyStr) EXCEPT !.exists = FALSE]

Init ==
    /\ rec \in {[exists |-> TRUE, name |-> RecName, namespacePrefix |-> EmptyStr,
                 finalizer |-> FALSE, deletionTimestamp |-> FALSE,
                 expirationDate |-> d, secrets |-> given.secrets,
                 configMaps |-> given.configMaps,
                 syncPolicy |-> given.syncPolicy, status |-> EmptyStatus] :
                d \in PastDate..(MaxNow - 1), given \in RecSpecs}
    /\ namespaces = {}
    /\ argoApps = << >>
    /\ now = 0
    /\ pc = "idle"
    /\ ephApp = rec
    /\ stale = FALSE
    /\ calls = <<>>
    /\ result = NoResult
    /\ createdNs = {}
    /\ createdApps = {}
    /\ request = NoRequest
    /\ objects = SourceObjects
    /\ prov = ProvIdle
    /\ argocdClient = 0
    /\ tokenLock = NoCaller
    /\ validTokens = {0}
    /\ issued = 1
    /\ thr = [t \in Callers |-> CallIdle]
    /\ logins = {}
    /\ down = FALSE
    /\ http = HttpIdle
    /\ applied = NoApplication
    /\ fleet = [k \in FleetKeys |-> NoRecord]
    /\ fleetNamespaces = {}
    /\ fleetApps = << >>

(* ---------------- control flow of one pass ---------------- *)

\* variant: expiring also resets the recorded namespace
handleExpiration_ClearsNamespace(e, t) ==
    Cont("handleExpiration_StatusUpdate",
         [e EXCEPT !.status.phase = "Expiring",
                   !.status.namespace = EmptyStr,
                   !.status.message =
                       [text |-> "Ephemeral environment has expired and is being deleted",
                        err |-> NoErr],
                   !.status.conditions =
                       setCondition(e.status.conditions, "Ready", "False",
                                    "Expiring", "Environment has expired", t)])

\* in-memory part of handleExpiration, up to its Status().Update
handleExpiration(e, t) ==
    Cont("handleExpiration_StatusUpdate",
         [e EXCEPT !.status.phase = "Expiring",
                   !.status.message =
                       [text |-> "Ephemeral environment has expired and is being deleted",
                        err |-> NoErr],
                   !.status.conditions =
                       setCondition(e.status.conditions, "Ready", "False",
                                    "Expiring", "Environment has expired", t)])

\* variant: the error is left out of status.message
updateStatusWithError_NoErrorText(e, phase, message, err, t) ==
    Cont("updateStatusWithError_StatusUpdate",
         [e EXCEPT !.status.phase = phase,
                   !.status.message = [text |-> message, err |-> NoErr],
                   !.status.conditions =
                       setCondition(e.status.conditions, "Ready", "False",
                                    "Error", message, t)])

\* in-memory part of updateStatusWithError, up to its Status().Update
updateStatusWithError(e, phase, message, err, t) ==
    Cont("updateStatusWithError_StatusUpdate",
         [e EXCEPT !.status.phase = phase,
                   !.status.message = [text |-> message, err |-> err],
                   !.status.conditions =
                       setCondition(e.status.conditions, "Ready", "False",
                                    "Error", message, t)])

\* variant: status.namespace is not recorded
handlePendingPhaseCreated_NoNamespace(e, namespace, argoAppName, t) ==
    Cont("handlePendingPhase_StatusUpdate",
         [e EXCEPT !.status.phase = "Creating",
                   !.status.argoApplicationName = argoAppName,
                   !.status.message =
                       [text |-> "ArgoCD application created successfully",
                        err |-> NoErr],
                   !.status.conditions =
                       setCondition(e.status.conditions, "Ready", "False",
                                    "Creating", "Creating ephemeral environment", t)])

\* in-memory end of handlePendingPhase, up to its Status().Update
handlePendingPhaseCreated(e, namespace, argoAppName, t) ==
    Cont("handlePendingPhase_StatusUpdate",
         [e EXCEPT !.status.phase = "Creating",
                   !.status.namespace = namespace,
                   !.status.argoApplicationName = argoAppName,
                   !.status.message =
                       [text |-> "ArgoCD application created successfully",
                        err |-> NoErr],
                   !.status.conditions =
                       setCondition(e.status.conditions, "Ready", "False",
                                    "Creating", "Creating ephemeral environment", t)])

\* variant: a Failed record is sent through the Pending handler again
Dispatch_RetriesFailed(e) ==
    CASE e.status.phase \in {"", "Pending", "Failed"} ->
            Cont("handlePendingPhase_CreateNamespace", e)
      [] e.status.phase = "Creating" ->
            Cont("handleCreatingPhase_GetApplication", e)
      [] e.status.phase = "Active" ->
            Cont("handleActivePhase_GetApplication", e)
      [] OTHER -> Ret(NoErr, 0, e)

\* the phase switch of Reconcile; handleFailedPhase only requeues
Dispatch(e) ==
    CASE e.status.phase \in {"", "Pending"} ->
            Cont("handlePendingPhase_CreateNamespace", e)
      [] e.status.phase = "Creating" ->
            Cont("handleCreatingPhase_GetApplication", e)
      [] e.status.phase = "Active" ->
            Cont("handleActivePhase_GetApplication", e)
      [] e.status.phase = "Failed" ->
            Ret(NoErr, ReconcileInterval, e)
      [] OTHER -> Ret(NoErr, 0, e)

\* variant: a Failed record is handed to the phase switch without the expiry test
AfterFinalizer_FailedSkipsExpiry(e, t) ==
    IF isExpired(e, t) /\ e.status.phase # "Failed"
    THEN handleExpiration(e, t)
    ELSE Dispatch(e)

\* variant: a record no pass has handled yet goes to the phase switch first
AfterFinalizer_NewSkipsExpiry(e, t) ==
    IF isExpired(e, t) /\ e.status.phase # ""
    THEN handleExpiration(e, t)
    ELSE Dispatch(e)

\* Reconcile after the finalizer is in place: expiry test, then the switch
AfterFinalizer(e, t) ==
    IF isExpired(e, t) THEN handleExpiration(e, t) ELSE Dispatch(e)

\* handleDeletion from its stage-th step on (1: application delete,
\* 2: namespace delete, 3: finalizer removal)
handleDeletion(e, stage) ==
    IF ~e.finalizer THEN Ret(NoErr, 0, e)
    ELSE IF stage <= 1 /\ e.status.argoApplicationName # EmptyStr
         THEN Cont("handleDeletion_DeleteApplication", e)
    ELSE IF stage <= 2 /\ e.status.namespace # EmptyStr
         THEN Cont("handleDeletion_DeleteNamespace", e)
    ELSE Cont("handleDeletion_RemoveFinalizer", [e EXCEPT !.finalizer = FALSE])

\* variant: the finalizer is not added before the expiry test and the switch
ReconcileEntry_NoFinalizer(e, t) ==
    IF e.deletionTimestamp THEN handleDeletion(e, 1)
    ELSE AfterFinalizer(e, t)

\* variant: the expiry test comes before the deletion test
ReconcileEntry_ExpiryFirst(e, t) ==
    IF isExpired(e, t) /\ e.finalizer THEN handleExpiration(e, t)
    ELSE IF e.deletionTimestamp THEN handleDeletion(e, 1)
    ELSE IF ~e.finalizer
         THEN Cont("Reconcile_AddFinalizer", [e EXCEPT !.finalizer = TRUE])
    ELSE AfterFinalizer(e, t)

\* Reconcile after a successful Get
ReconcileEntry(e, t) ==
    IF e.deletionTimestamp THEN handleDeletion(e, 1)
    ELSE IF ~e.finalizer
         THEN Cont("Reconcile_AddFinalizer", [e EXCEPT !.finalizer = TRUE])
    ELSE AfterFinalizer(e, t)

Proceed(k) ==
    /\ pc' = k.pc
    /\ ephApp' = k.eph
    /\ result' = k.ret

(* ---------------- object store ---------------- *)

\* error of r.Update / r.Status().Update of the record: the record is
\* gone, its resourceVersion moved on, or the call fails
WriteErr(o) ==
    IF ~rec.exists THEN ErrNotFound
    ELSE IF stale THEN ErrConflict
    ELSE IF o = "err" THEN ErrInternal
    ELSE NoErr

\* r.Update: metadata and spec are written, the status is not
UpdateObject(e) ==
    LET r == [rec EXCEPT !.finalizer = e.finalizer,
                         !.expirationDate = e.expirationDate,
                         !.namespacePrefix = e.namespacePrefix]
    IN  IF r.deletionTimestamp /\ ~r.finalizer
        THEN [r EXCEPT !.exists = FALSE]
        ELSE r

\* r.Status().Update: only the status is written
UpdateStatus(e) == [rec EXCEPT !.status = e.status]

\* r.Delete of the record: a record holding a finalizer only gets its
\* deletion timestamp
DeleteObject(r) ==
    IF r.finalizer THEN [r EXCEPT !.deletionTimestamp = TRUE]
    ELSE [r EXCEPT !.exists = FALSE]

Outcome == {"ok", "err"}

(* ---------------- Reconcile ---------------- *)

\* r.Get, then the deletion / finalizer / expiry tests and the phase switch
Reconcile_Get(o) ==
    /\ pc = "idle"
    /\ IF o = "err"
       THEN /\ calls' = <<Call("Get", ErrInternal)>>
            /\ Proceed(Ret(ErrInternal, 0, ephApp))
            /\ UNCHANGED stale
       ELSE IF ~rec.exists
       THEN /\ calls' = <<Call("Get", ErrNotFound)>>
            /\ Proceed(Ret(NoErr, 0, ephApp))
            /\ UNCHANGED stale
       ELSE /\ calls' = <<Call("Get", NoErr)>>
            /\ Proceed(ReconcileEntry(rec, now))
            /\ stale' = FALSE
    /\ UNCHANGED <<rec, namespaces, argoApps, now, createdNs, createdApps>>
    /\ UNCHANGED <<request, provVars, clientVars, apiVars, fnVars, fleetVars>>

\* r.Update that persists the finalizer
Reconcile_AddFinalizer(o) ==
    /\ pc = "Reconcile_AddFinalizer"
    /\ LET err == WriteErr(o)
       IN  /\ calls' = Append(calls, Call("AddFinalizer", err))
           /\ IF err # NoErr
              THEN /\ Proceed(Ret(err, 0, ephApp))
                   /\ UNCHANGED rec
              ELSE /\ rec' = UpdateObject(ephApp)
                   /\ Proceed(AfterFinalizer(ephApp, now))
    /\ UNCHANGED <<namespaces, argoApps, now, stale, createdNs, createdApps>>
    /\ UNCHANGED <<request, provVars, clientVars, apiVars, fnVars, fleetVars>>

\* handleExpiration: r.Status().Update with phase Expiring
handleExpiration_StatusUpdate(o) ==
    /\ pc = "handleExpiration_StatusUpdate"
    /\ LET err == WriteErr(o)
       IN  /\ calls' = Append(calls, Call("StatusUpdate", err))
           /\ IF err # NoErr
              THEN /\ Proceed(Ret(err, 0, ephApp))
                   /\ UNCHANGED rec
              ELSE /\ rec' = UpdateStatus(ephApp)
                   /\ Proceed(Cont("handleExpiration_Delete", ephApp))
    /\ UNCHANGED <<namespaces, argoApps, now, stale, createdNs, createdApps>>
    /\ UNCHANGED <<request, provVars, clientVars, apiVars, fnVars, fleetVars>>

\* handleExpiration: r.Delete of the record
handleExpiration_Delete(o) ==
    /\ pc = "handleExpiration_Delete"
    /\ LET err == IF ~rec.exists THEN ErrNotFound
                  ELSE IF o = "err" THEN ErrInternal ELSE NoErr
       IN  /\ calls' = Append(calls, Call("DeleteRecord", err))
           /\ rec' = IF err = NoErr THEN DeleteObject(rec) ELSE rec
           /\ Proceed(Ret(err, 0, ephApp))
    /\ UNCHANGED <<namespaces, argoApps, now, stale, createdNs, createdApps>>
    /\ UNCHANGED <<request, provVars, clientVars, apiVars, fnVars, fleetVars>>

(* ---------------- handlePendingPhase ---------------- *)

\* r.Create of the namespace
handlePendingPhase_CreateNamespace(o) ==
    /\ pc = "handlePendingPhase_CreateNamespace"
    /\ LET namespace == GenerateNamespace(getNamespacePrefix(ephApp), ephApp.name)
           err == IF o = "err" THEN ErrInternal
                  ELSE IF namespace \in namespaces THEN ErrAlreadyExists
                  ELSE NoErr
       IN  /\ calls' = Append(calls, Call("CreateNamespace", err))
           /\ namespaces' = IF err = NoErr THEN namespaces \cup {namespace}
                            ELSE namespaces
           /\ createdNs' = IF err = NoErr THEN createdNs \cup {namespace}
                           ELSE createdNs
           /\ IF err # NoErr /\ ~IsAlreadyExists(err)
              THEN Proceed(updateStatusWithError(ephApp, "Failed",
                               "Failed to create namespace", err, now))
              ELSE Proceed(Cont("handlePendingPhase_CreateApplication", ephApp))
    /\ UNCHANGED <<rec, argoApps, now, stale, createdApps>>
    /\ UNCHANGED <<request, provVars, clientVars, apiVars, fnVars, fleetVars>>

\* ArgoClient.CreateApplication; an application of that name and spec
\* that exists already is returned by the server as created
handlePendingPhase_CreateApplication(o) ==
    /\ pc = "handlePendingPhase_CreateApplication"
    /\ LET namespace == GenerateNamespace(getNamespacePrefix(ephApp), ephApp.name)
           name == ephApp.name
           err == IF o = "err" THEN ErrAppNotCreated ELSE NoErr
           isNew == err = NoErr /\ name \notin DOMAIN argoApps
       IN  /\ calls' = Append(calls, Call("CreateApplication", err))
           /\ request' = [name |-> name, namespace |-> namespace, prune |-> TRUE,
                          selfHeal |-> TRUE, ignoreDifferences |-> <<>>]
           /\ argoApps' = IF isNew
                          THEN [n \in DOMAIN argoApps \cup {name} |->
                                   IF n = name
                                   THEN [sync |-> "OutOfSync", health |-> "Progressing"]
                                   ELSE argoApps[n]]
                          ELSE argoApps
           /\ createdApps' = IF isNew THEN createdApps \cup {name} ELSE createdApps
           /\ IF err # NoErr
              THEN Proceed(updateStatusWithError(ephApp, "Failed",
                               "Failed to create ArgoCD application", err, now))
              ELSE Proceed(handlePendingPhaseCreated(ephApp, namespace, name, now))
    /\ UNCHANGED <<rec, namespaces, now, stale, createdNs>>
    /\ UNCHANGED <<provVars, clientVars, apiVars, fnVars, fleetVars>>

\* r.Status().Update of a status prepared in memory, then return
StatusUpdateAndReturn(at, o, requeue) ==
    /\ pc = at
    /\ LET err == WriteErr(o)
       IN  /\ calls' = Append(calls, Call("StatusUpdate", err))
           /\ rec' = IF err = NoErr THEN UpdateStatus(ephApp) ELSE rec
           /\ Proceed(Ret(err, IF err = NoErr THEN requeue ELSE 0, ephApp))
    /\ UNCHANGED <<namespaces, argoApps, now, stale, createdNs, createdApps>>
    /\ UNCHANGED <<request, provVars, clientVars, apiVars, fnVars, fleetVars>>

\* handlePendingPhase: r.Status().Update with phase Creating
handlePendingPhase_StatusUpdate(o) ==
    StatusUpdateAndReturn("handlePendingPhase_StatusUpdate", o, RequeueCreating)

\* updateStatusWithError: r.Status().Update with the error status
updateStatusWithError_StatusUpdate(o) ==
    StatusUpdateAndReturn("updateStatusWithError_StatusUpdate", o, ReconcileInterval)

(* ---------------- handleCreatingPhase / handleActivePhase ---------------- *)

GetOutcome == {"ok", "err", "noconn"}

\* clientImpl.GetApplication as the handlers see it: "none" when the
\* adapter could not open a connection (the only error it returns),
\* "fatal" when the server call failed (log.Fatalf ends the process, the
\* application being missing included; err is the server's answer, which
\* no caller ever receives), else the application
GetApplication(name, o) ==
    IF o = "noconn" THEN [kind |-> "none", err |-> ErrNoConnection]
    ELSE IF o = "err" THEN [kind |-> "fatal", err |-> ErrGrpcUnavailable]
    ELSE IF name \notin DOMAIN argoApps
         THEN [kind |-> "fatal", err |-> ErrGrpcNotFound]
    ELSE [kind |-> "app", err |-> NoErr, app |-> argoApps[name]]

\* variant: the health status is not looked at
handleCreatingPhase_SyncedOnly(e, got, t) ==
    IF got.err # NoErr
    THEN IF IsNotFound(got.err)
         THEN updateStatusWithError(e, "Failed", "ArgoCD application not found",
                                    got.err, t)
         ELSE Ret(got.err, 0, e)
    ELSE IF got.app.sync = "Synced"
         THEN Cont("handleCreatingPhase_StatusUpdate",
                   [e EXCEPT !.status.phase = "Active",
                             !.status.message =
                                 [text |-> "Ephemeral environment is active",
                                  err |-> NoErr],
                             !.status.lastSyncTime = t,
                             !.status.conditions =
                                 setCondition(e.status.conditions, "Ready", "True",
                                     "Active",
                                     "Ephemeral environment is active and healthy", t)])
    ELSE Ret(NoErr, RequeueCreating, e)

\* variant: Active is written without lastSyncTime
handleCreatingPhase_NoSyncTime(e, got, t) ==
    IF got.err # NoErr
    THEN IF IsNotFound(got.err)
         THEN updateStatusWithError(e, "Failed", "ArgoCD application not found",
                                    got.err, t)
         ELSE Ret(got.err, 0, e)
    ELSE IF got.app.sync = "Synced" /\ got.app.health = "Healthy"
         THEN Cont("handleCreatingPhase_StatusUpdate",
                   [e EXCEPT !.status.phase = "Active",
                             !.status.message =
                                 [text |-> "Ephemeral environment is active",
                                  err |-> NoErr],
                             !.status.conditions =
                                 setCondition(e.status.conditions, "Ready", "True",
                                     "Active",
                                     "Ephemeral environment is active and healthy", t)])
    ELSE Ret(NoErr, RequeueCreating, e)

\* variant: Active is written without the Ready condition
handleCreatingPhase_NoReady(e, got, t) ==
    IF got.err # NoErr
    THEN IF IsNotFound(got.err)
         THEN updateStatusWithError(e, "Failed", "ArgoCD application not found",
                                    got.err, t)
         ELSE Ret(got.err, 0, e)
    ELSE IF got.app.sync = "Synced" /\ got.app.health = "Healthy"
         THEN Cont("handleCreatingPhase_StatusUpdate",
                   [e EXCEPT !.status.phase = "Active",
                             !.status.message =
                                 [text |-> "Ephemeral environment is active",
                                  err |-> NoErr],
                             !.status.lastSyncTime = t])
    ELSE Ret(NoErr, RequeueCreating, e)

\* handleCreatingPhase after GetApplication returned
handleCreatingPhase(e, got, t) ==
    IF got.err # NoErr
    THEN IF IsNotFound(got.err)
         THEN updateStatusWithError(e, "Failed", "ArgoCD application not found",
                                    got.err, t)
         ELSE Ret(got.err, 0, e)
    ELSE IF got.app.sync = "Synced" /\ got.app.health = "Healthy"
         THEN Cont("handleCreatingPhase_StatusUpdate",
                   [e EXCEPT !.status.phase = "Active",
                             !.status.message =
                                 [text |-> "Ephemeral environment is active",
                                  err |-> NoErr],
                             !.status.lastSyncTime = t,
                             !.status.conditions =
                                 setCondition(e.status.conditions, "Ready", "True",
                                     "Active",
                                     "Ephemeral environment is active and healthy", t)])
    ELSE Ret(NoErr, RequeueCreating, e)

\* handleActivePhase after GetApplication returned
handleActivePhase(e, got, t) ==
    IF got.err # NoErr
    THEN IF IsNotFound(got.err)
         THEN updateStatusWithError(e, "Failed", "ArgoCD application disappeared",
                                    got.err, t)
         ELSE Ret(got.err, 0, e)
    ELSE IF got.app.sync = "Synced"
         THEN Cont("handleActivePhase_StatusUpdate",
                   [e EXCEPT !.status.lastSyncTime = t])
    ELSE Ret(NoErr, ReconcileInterval, e)

handleCreatingPhase_GetApplication(o) ==
    /\ pc = "handleCreatingPhase_GetApplication"
    /\ LET got == GetApplication(ephApp.status.argoApplicationName, o)
       IN  IF got.kind = "fatal"
           THEN /\ pc' = "idle"
                /\ result' = Crashed
                /\ calls' = Append(calls, Call("GetApplication", got.err))
                /\ UNCHANGED ephApp
           ELSE /\ calls' = Append(calls, Call("GetApplication", got.err))
                /\ Proceed(handleCreatingPhase(ephApp, got, now))
    /\ UNCHANGED <<rec, namespaces, argoApps, now, stale, createdNs, createdApps>>
    /\ UNCHANGED <<request, provVars, clientVars, apiVars, fnVars, fleetVars>>

\* handleCreatingPhase: r.Status().Update with phase Active
handleCreatingPhase_StatusUpdate(o) ==
    StatusUpdateAndReturn("handleCreatingPhase_StatusUpdate", o, ReconcileInterval)

handleActivePhase_GetApplication(o) ==
    /\ pc = "handleActivePhase_GetApplication"
    /\ LET got == GetApplication(ephApp.status.argoApplicationName, o)
       IN  IF got.kind = "fatal"
           THEN /\ pc' = "idle"
                /\ result' = Crashed
                /\ calls' = Append(calls, Call("GetApplication", got.err))
                /\ UNCHANGED ephApp
           ELSE /\ calls' = Append(calls, Call("GetApplication", got.err))
                /\ Proceed(handleActivePhase(ephApp, got, now))
    /\ UNCHANGED <<rec, namespaces, argoApps, now, stale, createdNs, createdApps>>
    /\ UNCHANGED <<request, provVars, clientVars, apiVars, fnVars, fleetVars>>

\* handleActivePhase: r.Status().Update with the refreshed lastSyncTime
handleActivePhase_StatusUpdate(o) ==
    StatusUpdateAndReturn("handleActivePhase_StatusUpdate", o, ReconcileInterval)

(* ---------------- handleDeletion ---------------- *)

\* ArgoClient.DeleteApplication(status.argoApplicationName, status.namespace)
handleDeletion_DeleteApplication(o) ==
    /\ pc = "handleDeletion_DeleteApplication"
    /\ LET name == ephApp.status.argoApplicationName
           err == IF name = EmptyStr \/ ephApp.status.namespace = EmptyStr
                  THEN [lib |-> "fmt", reason |-> "name and namespace must be defined"]
                  ELSE IF o = "err" THEN ErrGrpcUnavailable
                  ELSE IF name \notin DOMAIN argoApps THEN ErrGrpcNotFound
                  ELSE NoErr
       IN  /\ calls' = Append(calls, Call("DeleteApplication", err))
           /\ argoApps' = IF err = NoErr
                          THEN [n \in DOMAIN argoApps \ {name} |-> argoApps[n]]
                          ELSE argoApps
           /\ createdApps' = IF err = NoErr THEN createdApps \ {name} ELSE createdApps
           /\ IF err # NoErr /\ ~IsNotFound(err)
              THEN Proceed(Ret(err, 0, ephApp))
              ELSE Proceed(handleDeletion(ephApp, 2))
    /\ UNCHANGED <<rec, namespaces, now, stale, createdNs>>
    /\ UNCHANGED <<request, provVars, clientVars, apiVars, fnVars, fleetVars>>

\* r.Delete of the namespace status.namespace
handleDeletion_DeleteNamespace(o) ==
    /\ pc = "handleDeletion_DeleteNamespace"
    /\ LET name == ephApp.status.namespace
           err == IF o = "err" THEN ErrInternal
                  ELSE IF name \notin namespaces THEN ErrNotFound
                  ELSE NoErr
       IN  /\ calls' = Append(calls, Call("DeleteNamespace", err))
           /\ namespaces' = IF err = NoErr THEN namespaces \ {name} ELSE namespaces
           /\ createdNs' = IF err = NoErr THEN createdNs \ {name} ELSE createdNs
           /\ IF err # NoErr /\ ~IsNotFound(err)
              THEN Proceed(Ret(err, 0, ephApp))
              ELSE Proceed(handleDeletion(ephApp, 3))
    /\ UNCHANGED <<rec, argoApps, now, stale, createdApps>>
    /\ UNCHANGED <<request, provVars, clientVars, apiVars, fnVars, fleetVars>>

\* r.Update that removes the finalizer; the record then disappears
handleDeletion_RemoveFinalizer(o) ==
    /\ pc = "handleDeletion_RemoveFinalizer"
    /\ LET err == WriteErr(o)
       IN  /\ calls' = Append(calls, Call("RemoveFinalizer", err))
           /\ rec' = IF err = NoErr THEN UpdateObject(ephApp) ELSE rec
           /\ Proceed(Ret(err, 0, ephApp))
    /\ UNCHANGED <<namespaces, argoApps, now, stale, createdNs, createdApps>>
    /\ UNCHANGED <<request, provVars, clientVars, apiVars, fnVars, fleetVars>>

(* ---------------- environment ---------------- *)

\* the process dies in the middle of a pass
Crash ==
    /\ pc # "idle"
    /\ pc' = "idle"
    /\ result' = Crashed
    /\ UNCHANGED <<rec, namespaces, argoApps, now, ephApp, stale, calls,
                   createdNs, createdApps>>
    /\ UNCHANGED <<request, provVars, clientVars, apiVars, fnVars, fleetVars>>

Tick ==
    /\ now < MaxNow
    /\ now' = now + 1
    /\ UNCHANGED <<rec, namespaces, argoApps, pc, ephApp, stale, calls, result,
                   createdNs, createdApps>>
    /\ UNCHANGED <<request, provVars, clientVars, apiVars, fnVars, fleetVars>>

\* a user deletes the record (kubectl delete, EphemeralAppHandler.Delete)
UserDelete ==
    /\ rec.exists /\ ~rec.deletionTimestamp
    /\ rec' = DeleteObject(rec)
    /\ stale' = (stale \/ pc # "idle")
    /\ UNCHANGED <<namespaces, argoApps, now, pc, ephApp, calls, result,
                   createdNs, createdApps>>
    /\ UNCHANGED <<request, provVars, clientVars, apiVars, fnVars, fleetVars>>

\* a user moves spec.expirationDate (EphemeralAppHandler.Update)
UserSetExpiration(d) ==
    /\ rec.exists /\ d # rec.expirationDate
    /\ rec' = [rec EXCEPT !.expirationDate = d]
    /\ stale' = (stale \/ pc # "idle")
    /\ UNCHANGED <<namespaces, argoApps, now, pc, ephApp, calls, result,
                   createdNs, createdApps>>
    /\ UNCHANGED <<request, provVars, clientVars, apiVars, fnVars, fleetVars>>

SyncStatus == {"OutOfSync", "Synced"}
HealthStatus == {"Progressing", "Healthy"}

\* ArgoCD reports a new sync / health status of an application
ArgoStatusChange(n, s, h) ==
    /\ n \in DOMAIN argoApps
    /\ argoApps[n] # [sync |-> s, health |-> h]
    /\ argoApps' = [argoApps EXCEPT ![n] = [sync |-> s, health |-> h]]
    /\ UNCHANGED <<rec, namespaces, now, pc, ephApp, stale, calls, result,
                   createdNs, createdApps>>
    /\ UNCHANGED <<request, provVars, clientVars, apiVars, fnVars, fleetVars>>

\* the application is deleted behind the operator's back
ApplicationVanishes(n) ==
    /\ n \in DOMAIN argoApps
    /\ argoApps' = [m \in DOMAIN argoApps \ {n} |-> argoApps[m]]
    /\ createdApps' = createdApps \ {n}
    /\ UNCHANGED <<rec, namespaces, now, pc, ephApp, stale, calls, result, createdNs>>
    /\ UNCHANGED <<request, provVars, clientVars, apiVars, fnVars, fleetVars>>

\* the namespace is deleted behind the operator's back
NamespaceVanishes(n) ==
    /\ n \in namespaces
    /\ namespaces' = namespaces \ {n}
    /\ createdNs' = createdNs \ {n}
    /\ UNCHANGED <<rec, argoApps, now, pc, ephApp, stale, calls, result, createdApps>>
    /\ UNCHANGED <<request, provVars, clientVars, apiVars, fnVars, fleetVars>>

Next ==
    \/ \E o \in Outcome : Reconcile_Get(o)
    \/ \E o \in Outcome : Reconcile_AddFinalizer(o)
    \/ \E o \in Outcome : handleExpiration_StatusUpdate(o)
    \/ \E o \in Outcome : handleExpiration_Delete(o)
    \/ \E o \in Outcome : handlePendingPhase_CreateNamespace(o)
    \/ \E o \in Outcome : handlePendingPhase_CreateApplication(o)
    \/ \E o \in Outcome : handlePendingPhase_StatusUpdate(o)
    \/ \E o \in Outcome : updateStatusWithError_StatusUpdate(o)
    \/ \E o \in GetOutcome : handleCreatingPhase_GetApplication(o)
    \/ \E o \in Outcome : handleCreatingPhase_StatusUpdate(o)
    \/ \E o \in GetOutcome : handleActivePhase_GetApplication(o)
    \/ \E o \in Outcome : handleActivePhase_StatusUpdate(o)
    \/ \E o \in Outcome : handleDeletion_DeleteApplication(o)
    \/ \E o \in Outcome : handleDeletion_DeleteNamespace(o)
    \/ \E o \in Outcome : handleDeletion_RemoveFinalizer(o)
    \/ Crash
    \/ Tick
    \/ UserDelete
    \/ \E d \in 0..(MaxNow - 1) : UserSetExpiration(d)
    \/ \E n \in DOMAIN argoApps, s \in SyncStatus, h \in HealthStatus :
          ArgoStatusChange(n, s, h)
    \/ \E n \in DOMAIN argoApps : ApplicationVanishes(n)
    \/ \E n \in namespaces : NamespaceVanishes(n)

Spec == Init /\ [][Next]_vars

\* the next store / ArgoCD call of the pass in flight, whatever its outcome
PassStep ==
    \/ \E o \in Outcome : Reconcile_AddFinalizer(o)
    \/ \E o \in Outcome : handleExpiration_StatusUpdate(o)
    \/ \E o \in Outcome : handleExpiration_Delete(o)
    \/ \E o \in Outcome : handlePendingPhase_CreateNamespace(o)
    \/ \E o \in Outcome : handlePendingPhase_CreateApplication(o)
    \/ \E o \in Outcome : handlePendingPhase_StatusUpdate(o)
    \/ \E o \in Outcome : updateStatusWithError_StatusUpdate(o)
    \/ \E o \in GetOutcome : handleCreatingPhase_GetApplication(o)
    \/ \E o \in Outcome : handleCreatingPhase_StatusUpdate(o)
    \/ \E o \in GetOutcome : handleActivePhase_GetApplication(o)
    \/ \E o \in Outcome : handleActivePhase_StatusUpdate(o)
    \/ \E o \in Outcome : handleDeletion_DeleteApplication(o)
    \/ \E o \in Outcome : handleDeletion_DeleteNamespace(o)
    \/ \E o \in Outcome : handleDeletion_RemoveFinalizer(o)

\* the step just taken did not end the pass with an error or a crash
Succeeds == result'.kind \notin {"err", "crash"}

\* fair scheduling of passes, a clock that advances, and store and ArgoCD
\* calls that succeed again and again when they can succeed at all
Fairness ==
    /\ WF_vars(Tick)
    /\ WF_vars(PassStep)
    /\ SF_vars(Reconcile_Get("ok") /\ Succeeds)
    /\ SF_vars(Reconcile_AddFinalizer("ok") /\ Succeeds)
    /\ SF_vars(handleExpiration_StatusUpdate("ok") /\ Succeeds)
    /\ SF_vars(handleExpiration_Delete("ok") /\ Succeeds)
    /\ SF_vars(handlePendingPhase_CreateNamespace("ok") /\ Succeeds)
    /\ SF_vars(handlePendingPhase_CreateApplication("ok") /\ Succeeds)
    /\ SF_vars(handlePendingPhase_StatusUpdate("ok") /\ Succeeds)
    /\ SF_vars(updateStatusWithError_StatusUpdate("ok") /\ Succeeds)
    /\ SF_vars(handleCreatingPhase_GetApplication("ok") /\ Succeeds)
    /\ SF_vars(handleCreatingPhase_StatusUpdate("ok") /\ Succeeds)
    /\ SF_vars(handleActivePhase_GetApplication("ok") /\ Succeeds)
    /\ SF_vars(handleActivePhase_StatusUpdate("ok") /\ Succeeds)
    /\ SF_vars(handleDeletion_DeleteApplication("ok") /\ Succeeds)
    /\ SF_vars(handleDeletion_DeleteNamespace("ok") /\ Succeeds)
    /\ SF_vars(handleDeletion_RemoveFinalizer("ok") /\ Succeeds)

\* the passes on their own: no user edit and no deletion behind the
\* operator's back, no crash; calls still fail transiently
NextUndisturbed ==
    \/ \E o \in Outcome : Reconcile_Get(o)
    \/ PassStep
    \/ Tick
    \/ \E n \in DOMAIN argoApps, s \in SyncStatus, h \in HealthStatus :
          ArgoStatusChange(n, s, h)

\* teardown does not read the references of the record: one list is enough
FairInit == Init /\ rec.secrets = <<>>

FairSpec == FairInit /\ [][NextUndisturbed]_vars /\ Fairness

(* ---------------- resource provisioner ---------------- *)

\* how the object store answers the calls made for one reference
ProvOutcome == {"ok", "getSourceErr", "createErr", "getExistingErr", "updateErr"}

\* copySecret, lines 67-71: the name of the target secret
targetNameOf(secretRef) ==
    IF secretRef.targetName # "" THEN secretRef.targetName ELSE secretRef.name

\* BuildIgnoreDifferences: one entry per secret reference, then one per
\* config-map reference
BuildIgnoreDifferences(e) ==
    [k \in 1..Len(e.secrets) |->
        [group |-> "", kind |-> "Secret", name |-> targetNameOf(e.secrets[k]),
         jsonPointers |-> <<"/data", "/stringData">>]]
    \o [k \in 1..Len(e.configMaps) |->
        [group |-> "", kind |-> "ConfigMap", name |-> e.configMaps[k].name,
         jsonPointers |-> <<"/data", "/binaryData">>]]

\* ApplicationBuilder.buildSyncPolicy: prune and selfHeal on when the record
\* gives no sync policy, else the record's automated values, and no
\* automation when the policy has no automated part
buildSyncPolicy(e) ==
    IF e.syncPolicy = NilPtr
    THEN [automated |-> PtrTo([prune |-> TRUE, selfHeal |-> TRUE])]
    ELSE IF Deref(e.syncPolicy).automated # NilPtr
    THEN [automated |->
             PtrTo([prune |-> Deref(Deref(e.syncPolicy).automated).prune,
                    selfHeal |-> Deref(Deref(e.syncPolicy).automated).selfHeal])]
    ELSE [automated |-> NilPtr]

\* variant: a reference naming a source namespace is copied even when it
\* carries inline values
secretIsInline_UnlessSource(secretRef) ==
    DOMAIN secretRef.values # {} /\ secretRef.sourceNamespace = EmptyStr

\* copySecret, lines 51 and 88: len(secretRef.Values) > 0
secretIsInline(secretRef) == DOMAIN secretRef.values # {}

\* copySecret, lines 80-95: the labels and annotations of a new target
secretLabels(secretRef, e) ==
    ("app.kubernetes.io/managed-by" :> "argo-ephemeral-operator")
    @@ ("ephemeral.argo.io/owner" :> e.name)
    @@ (IF secretIsInline(secretRef)
        THEN ("ephemeral.argo.io/inline" :> "true")
        ELSE ("ephemeral.argo.io/copied-from" :> secretRef.sourceNamespace)
             @@ ("ephemeral.argo.io/source-name" :> secretRef.name))

secretAnnotations(secretRef) ==
    IF secretIsInline(secretRef) THEN NoData
    ELSE ("ephemeral.argo.io/source-namespace" :> secretRef.sourceNamespace)
         @@ ("ephemeral.argo.io/source-secret" :> secretRef.name)

\* variant: an existing target is left as it is
copySecret_KeepsExisting(secretRef, targetNamespace, e, o) ==
    LET inline == secretIsInline(secretRef)
        srcKey == <<"Secret", secretRef.sourceNamespace, secretRef.name>>
        getErr == IF inline THEN NoErr
                  ELSE IF o = "getSourceErr" THEN ErrInternal
                  ELSE IF srcKey \notin DOMAIN objects THEN ErrNotFound
                  ELSE NoErr
        sourceSecret ==
            IF inline
            THEN [type |-> "Opaque",
                  data |-> [k \in DOMAIN secretRef.values |->
                               StringToBytes(secretRef.values[k])]]
            ELSE [type |-> objects[srcKey].type, data |-> objects[srcKey].data]
        key == <<"Secret", targetNamespace, targetNameOf(secretRef)>>
        targetSecret ==
            [type |-> sourceSecret.type, data |-> sourceSecret.data,
             labels |-> secretLabels(secretRef, e),
             annotations |-> secretAnnotations(secretRef)]
    IN  IF getErr # NoErr THEN [err |-> getErr, objects |-> objects, did |-> "failed"]
        ELSE IF o = "createErr"
             THEN [err |-> ErrInternal, objects |-> objects, did |-> "failed"]
        ELSE IF key \in DOMAIN objects
             THEN [err |-> NoErr, objects |-> objects, did |-> "updated"]
        ELSE [err |-> NoErr, objects |-> (key :> targetSecret) @@ objects,
              did |-> "created"]

\* copySecret: the source (inline values or the stored secret), the target
\* with its provenance, then create, or get and update when it exists
copySecret(secretRef, targetNamespace, e, o) ==
    LET inline == secretIsInline(secretRef)
        srcKey == <<"Secret", secretRef.sourceNamespace, secretRef.name>>
        getErr == IF inline THEN NoErr
                  ELSE IF o = "getSourceErr" THEN ErrInternal
                  ELSE IF srcKey \notin DOMAIN objects THEN ErrNotFound
                  ELSE NoErr
        sourceSecret ==
            IF inline
            THEN [type |-> "Opaque",
                  data |-> [k \in DOMAIN secretRef.values |->
                               StringToBytes(secretRef.values[k])]]
            ELSE [type |-> objects[srcKey].type, data |-> objects[srcKey].data]
        key == <<"Secret", targetNamespace, targetNameOf(secretRef)>>
        targetSecret ==
            [type |-> sourceSecret.type, data |-> sourceSecret.data,
             labels |-> secretLabels(secretRef, e),
             annotations |-> secretAnnotations(secretRef)]
    IN  IF getErr # NoErr THEN [err |-> getErr, objects |-> objects, did |-> "failed"]
        ELSE IF o = "createErr"
             THEN [err |-> ErrInternal, objects |-> objects, did |-> "failed"]
        ELSE IF key \in DOMAIN objects
             THEN IF o \in {"getExistingErr", "updateErr"}
                  THEN [err |-> ErrInternal, objects |-> objects, did |-> "failed"]
                  ELSE [err |-> NoErr,
                        objects |-> [objects EXCEPT ![key].data = sourceSecret.data,
                                                    ![key].type = sourceSecret.type],
                        did |-> "updated"]
        ELSE [err |-> NoErr, objects |-> (key :> targetSecret) @@ objects,
              did |-> "created"]

\* copyConfigMap, lines 409 and 443: len(cmRef.Data) > 0
configMapIsInline(cmRef) == DOMAIN cmRef.data # {}

\* copyConfigMap, lines 435-450
configMapLabels(cmRef, e) ==
    ("app.kubernetes.io/managed-by" :> "argo-ephemeral-operator")
    @@ ("ephemeral.argo.io/owner" :> e.name)
    @@ (IF configMapIsInline(cmRef)
        THEN ("ephemeral.argo.io/inline" :> "true")
        ELSE ("ephemeral.argo.io/copied-from" :> cmRef.sourceNamespace)
             @@ ("ephemeral.argo.io/source-name" :> cmRef.name))

configMapAnnotations(cmRef) ==
    IF configMapIsInline(cmRef) THEN NoData
    ELSE ("ephemeral.argo.io/source-namespace" :> cmRef.sourceNamespace)
         @@ ("ephemeral.argo.io/source-configmap" :> cmRef.name)

\* copyConfigMap
copyConfigMap(cmRef, targetNamespace, e, o) ==
    LET inline == configMapIsInline(cmRef)
        srcKey == <<"ConfigMap", cmRef.sourceNamespace, cmRef.name>>
        getErr == IF inline THEN NoErr
                  ELSE IF o = "getSourceErr" THEN ErrInternal
                  ELSE IF srcKey \notin DOMAIN objects THEN ErrNotFound
                  ELSE NoErr
        cmData == IF inline THEN cmRef.data ELSE objects[srcKey].data
        key == <<"ConfigMap", targetNamespace, cmRef.name>>
        targetCM ==
            [type |-> "", data |-> cmData,
             labels |-> configMapLabels(cmRef, e),
             annotations |-> configMapAnnotations(cmRef)]
    IN  IF getErr # NoErr THEN [err |-> getErr, objects |-> objects, did |-> "failed"]
        ELSE IF o = "createErr"
             THEN [err |-> ErrInternal, objects |-> objects, did |-> "failed"]
        ELSE IF key \in DOMAIN objects
             THEN IF o \in {"getExistingErr", "updateErr"}
                  THEN [err |-> ErrInternal, objects |-> objects, did |-> "failed"]
                  ELSE [err |-> NoErr,
                        objects |-> [objects EXCEPT ![key].data = cmData],
                        did |-> "updated"]
        ELSE [err |-> NoErr, objects |-> (key :> targetCM) @@ objects,
              did |-> "created"]

\* the references and reference lists the provisioning calls are tried on
SecretRefs ==
    {SecretDbRenamed, SecretInline, SecretInlineAndSource, SecretNowhere}
ConfigMapRefs == {ConfigMapSettings, ConfigMapInline, ConfigMapInlineAndSource}

\* one record, no pass in flight
ProvisionInit ==
    /\ Init
    /\ rec.expirationDate = 0
    /\ rec.secrets = <<>>

ListsOf(S) == UNION {[1..k -> S] : k \in 0..MaxRefs}

\* the boundary the references are provisioned into
TargetNamespace == GenerateNamespace(DefaultPrefix, RecName)

\* variant: a reference whose source is missing is skipped
copySecretsLoop_SkipsMissing(p, secretRef, res) ==
    IF res.err # NoErr /\ res.err # ErrNotFound
    THEN [p EXCEPT !.pc = "done", !.eph = NoEph, !.err = res.err,
                   !.failed = secretRef.name]
    ELSE IF p.i < Len(p.eph.secrets) THEN [p EXCEPT !.i = p.i + 1]
    ELSE [p EXCEPT !.pc = "done", !.eph = NoEph]

\* variant: a failed reference is remembered and the loop goes on
copySecretsLoop_BestEffort(p, secretRef, res) ==
    LET q == [p EXCEPT !.err = IF p.err # NoErr THEN p.err ELSE res.err,
                       !.failed = IF p.err # NoErr THEN p.failed
                                  ELSE IF res.err # NoErr THEN secretRef.name
                                  ELSE ""]
    IN  IF p.i < Len(p.eph.secrets) THEN [q EXCEPT !.i = p.i + 1]
        ELSE [q EXCEPT !.pc = "done", !.eph = NoEph]

\* copySecrets, lines 30-37: the first failing reference ends the call
\* with an error naming it; else on to the next reference
copySecretsLoop(p, secretRef, res) ==
    IF res.err # NoErr
    THEN [p EXCEPT !.pc = "done", !.eph = NoEph, !.err = res.err,
                   !.failed = secretRef.name]
    ELSE IF p.i < Len(p.eph.secrets) THEN [p EXCEPT !.i = p.i + 1]
    ELSE [p EXCEPT !.pc = "done", !.eph = NoEph]

\* copyConfigMaps, lines 388-394
copyConfigMapsLoop(p, cmRef, res) ==
    IF res.err # NoErr
    THEN [p EXCEPT !.pc = "done", !.eph = NoEph, !.err = res.err,
                   !.failed = cmRef.name]
    ELSE IF p.i < Len(p.eph.configMaps) THEN [p EXCEPT !.i = p.i + 1]
    ELSE [p EXCEPT !.pc = "done", !.eph = NoEph]

\* copySecrets is called: an empty list returns nil at once
copySecrets_Call(e, targetNamespace) ==
    /\ prov.pc \in {"idle", "done"}
    /\ prov' = [ProvIdle EXCEPT
                   !.pc = IF Len(e.secrets) = 0 THEN "done" ELSE "copySecrets",
                   !.call = "copySecrets",
                   !.eph = IF Len(e.secrets) = 0 THEN NoEph ELSE e,
                   !.target = targetNamespace,
                   !.n = Len(e.secrets),
                   !.i = IF Len(e.secrets) = 0 THEN 0 ELSE 1]
    /\ UNCHANGED <<objects, reconcilerVars, clientVars, apiVars, fnVars, fleetVars>>

\* copySecrets: copySecret for the reference the loop is at
copySecrets_Step(o) ==
    /\ prov.pc = "copySecrets"
    /\ LET secretRef == prov.eph.secrets[prov.i]
           res == copySecret(secretRef, prov.target, prov.eph, o)
       IN  /\ objects' = res.objects
           /\ prov' = copySecretsLoop([prov EXCEPT !.o = o, !.did = res.did],
                                    secretRef, res)
    /\ UNCHANGED <<reconcilerVars, clientVars, apiVars, fnVars, fleetVars>>

\* copyConfigMaps is called
copyConfigMaps_Call(e, targetNamespace) ==
    /\ prov.pc \in {"idle", "done"}
    /\ prov' = [ProvIdle EXCEPT
                   !.pc = IF Len(e.configMaps) = 0 THEN "done" ELSE "copyConfigMaps",
                   !.call = "copyConfigMaps",
                   !.eph = IF Len(e.configMaps) = 0 THEN NoEph ELSE e,
                   !.target = targetNamespace,
                   !.n = Len(e.configMaps),
                   !.i = IF Len(e.configMaps) = 0 THEN 0 ELSE 1]
    /\ UNCHANGED <<objects, reconcilerVars, clientVars, apiVars, fnVars, fleetVars>>

\* copyConfigMaps: copyConfigMap for the reference the loop is at
copyConfigMaps_Step(o) ==
    /\ prov.pc = "copyConfigMaps"
    /\ LET cmRef == prov.eph.configMaps[prov.i]
           res == copyConfigMap(cmRef, prov.target, prov.eph, o)
       IN  /\ objects' = res.objects
           /\ prov' = copyConfigMapsLoop([prov EXCEPT !.o = o, !.did = res.did],
                                       cmRef, res)
    /\ UNCHANGED <<reconcilerVars, clientVars, apiVars, fnVars, fleetVars>>

\* the data a secret or a config map can hold
DataOf(kind) ==
    IF kind = "Secret"
    THEN {("k" :> StringToBytes("v")), ("k" :> StringToBytes("w"))}
    ELSE {("k" :> "v"), ("k" :> "w")}

\* someone edits the data of a stored secret or config map
ObjectEdited(key, d) ==
    /\ key \in DOMAIN objects
    /\ objects[key].data # d
    /\ objects' = [objects EXCEPT ![key].data = d]
    /\ UNCHANGED <<prov, reconcilerVars, clientVars, apiVars, fnVars, fleetVars>>

\* someone deletes a stored secret or config map
ObjectDeleted(key) ==
    /\ key \in DOMAIN objects
    /\ objects' = [k \in DOMAIN objects \ {key} |-> objects[k]]
    /\ UNCHANGED <<prov, reconcilerVars, clientVars, apiVars, fnVars, fleetVars>>

ProvisionNext ==
    \/ \E l \in ListsOf(SecretRefs) :
          copySecrets_Call([name |-> rec.name, secrets |-> l, configMaps |-> <<>>],
                           TargetNamespace)
    \/ \E o \in ProvOutcome : copySecrets_Step(o)
    \/ \E l \in ListsOf(ConfigMapRefs) :
          copyConfigMaps_Call([name |-> rec.name, secrets |-> <<>>, configMaps |-> l],
                              TargetNamespace)
    \/ \E o \in ProvOutcome : copyConfigMaps_Step(o)
    \/ \E key \in DOMAIN objects : \E d \in DataOf(key[1]) : ObjectEdited(key, d)
    \/ \E key \in DOMAIN objects : ObjectDeleted(key)

\* the provisioner called on its own, over a store that others write too
ProvisionSpec == ProvisionInit /\ [][ProvisionNext]_vars

(* ---------------- ArgoCD client adapter ---------------- *)

\* the server rejects the token of the connection; the text of the error
\* holds "401"
ErrUnauthorized == [lib |-> "grpc", reason |-> "401"]
ErrUnsupportedScheme == [lib |-> "http", reason |-> "unsupported protocol scheme"]
ErrNoSuchHost == [lib |-> "http", reason |-> "no such host"]
ErrLoginFailed == [lib |-> "fmt", reason |-> "failed to login"]
ErrRenewToken == [lib |-> "fmt", reason |-> "error renewing auth token"]

\* fmt.Errorf("...: %v", err): the text of err stays part of the message
Wrap(err) == [lib |-> "fmt", reason |-> err.reason]

\* isUnauthorized: strings.Contains(err.Error(), "401")
isUnauthorized(err) == err # NoErr /\ err.reason = "401"

\* the configured server address (ARGO_SERVER): a host name without scheme
ServerAddr == [scheme |-> "", host |-> "argocd-server"]

\* "https://" + serverAddr
WithHttps(addr) ==
    [scheme |-> "https",
     host |-> IF addr.scheme = "" THEN addr.host ELSE addr.scheme]

\* getAuthToken: POST addr + "/api/v1/session"; the http client refuses a
\* URL without scheme before anything is sent
getAuthToken(addr, o) ==
    IF addr.scheme \notin {"http", "https"} THEN ErrUnsupportedScheme
    ELSE IF addr.host # ServerAddr.host THEN ErrNoSuchHost
    ELSE IF o = "err" THEN ErrLoginFailed
    ELSE NoErr

Ops == {"Create", "Get", "List", "Delete"}

\* one invocation of the requestFunc of CreateApplication, GetApplication,
\* GetApplications or DeleteApplication over a connection carrying token tok
requestFunc(op, tok, o) ==
    LET server == IF o = "err" THEN ErrGrpcUnavailable
                  ELSE IF tok \notin validTokens THEN ErrUnauthorized
                  ELSE NoErr
    IN  CASE op \in {"Create", "List"} ->
                [fatal |-> FALSE,
                 err |-> IF server = NoErr THEN NoErr ELSE Wrap(server)]
          [] op = "Get" -> [fatal |-> server # NoErr, err |-> NoErr]
          [] OTHER -> [fatal |-> FALSE, err |-> server]

ErrNameRequired ==
    [lib |-> "errors", reason |-> "application name parameter must be defined"]

\* the queries GetApplication is called with: the zero value, and name and
\* namespace set as handleCreatingPhase and handleActivePhase set them
Queries ==
    {NoQuery, [NoQuery EXCEPT !.Name = "app1", !.AppNamespace = "ephemeral-app1"]}

\* the static types of the fields of an ApplicationQuery
FieldType ==
    [Name |-> "*string", AppNamespace |-> "*string", Refresh |-> "*string",
     Repo |-> "*string", ResourceVersion |-> "*string", Selector |-> "*string",
     Project |-> "[]string", Projects |-> "[]string"]

\* a value stored in an interface{}: its dynamic type and the value; the
\* nil interface has neither
ToInterface(type, v) == [type |-> type, value |-> v]
NilInterface == [type |-> Nil, value |-> Nil]

\* isEmpty: the fields are put in a []interface{} and each element is
\* compared with nil
isEmpty(query) ==
    \A f \in DOMAIN query : ToInterface(FieldType[f], query[f]) = NilInterface

\* log.Fatalf: the process exits, with every call in flight
Exit ==
    /\ down' = TRUE
    /\ thr' = [t \in Callers |-> CallIdle]
    /\ tokenLock' = NoCaller

\* DoRequestWithRetry, line 131: open a connection with the current client
DoRequestWithRetry_Open(t, op, o) ==
    /\ ~down
    /\ op # "Get"
    /\ thr[t].pc \in {"idle", "done"}
    /\ thr' = [thr EXCEPT ![t] =
                 IF o = "err"
                 THEN [CallIdle EXCEPT !.pc = "done", !.op = op,
                                       !.ret = ErrNoConnection]
                 ELSE [CallIdle EXCEPT !.pc = "request", !.op = op,
                                       !.conn = argocdClient]]
    /\ UNCHANGED <<argocdClient, tokenLock, validTokens, issued, logins, down>>
    /\ UNCHANGED <<reconcilerVars, provVars, apiVars, fnVars, fleetVars>>

\* GetApplication, lines 197-199 and 202: an empty query is refused, any
\* other goes to DoRequestWithRetry
GetApplication_Call(t, query, o) ==
    /\ ~down
    /\ thr[t].pc \in {"idle", "done"}
    /\ thr' = [thr EXCEPT ![t] =
                 IF isEmpty(query)
                 THEN [CallIdle EXCEPT !.pc = "done", !.op = "Get",
                                       !.query = query, !.ret = ErrNameRequired]
                 ELSE IF o = "err"
                 THEN [CallIdle EXCEPT !.pc = "done", !.op = "Get",
                                       !.query = query, !.ret = ErrNoConnection]
                 ELSE [CallIdle EXCEPT !.pc = "request", !.op = "Get",
                                       !.query = query, !.conn = argocdClient]]
    /\ UNCHANGED <<argocdClient, tokenLock, validTokens, issued, logins, down>>
    /\ UNCHANGED <<reconcilerVars, provVars, apiVars, fnVars, fleetVars>>

\* DoRequestWithRetry, lines 137-139 and 157: the first invocation
DoRequestWithRetry_Request(t, o) ==
    /\ ~down
    /\ thr[t].pc = "request"
    /\ LET r == requestFunc(thr[t].op, thr[t].conn, o)
       IN  IF r.fatal
           THEN Exit
           ELSE /\ thr' = [thr EXCEPT ![t] =
                             IF isUnauthorized(r.err)
                             THEN [@ EXCEPT !.pc = "lock", !.attempts = 1,
                                            !.first = r.err]
                             ELSE [@ EXCEPT !.pc = "done", !.attempts = 1,
                                            !.first = r.err, !.ret = r.err]]
                /\ UNCHANGED <<tokenLock, down>>
    /\ UNCHANGED <<argocdClient, validTokens, issued, logins>>
    /\ UNCHANGED <<reconcilerVars, provVars, apiVars, fnVars, fleetVars>>

\* DoRequestWithRetry, line 141: c.tokenLock.Lock()
DoRequestWithRetry_Lock(t) ==
    /\ ~down
    /\ thr[t].pc = "lock"
    /\ tokenLock = NoCaller
    /\ tokenLock' = t
    /\ thr' = [thr EXCEPT ![t].pc = "refresh"]
    /\ UNCHANGED <<argocdClient, validTokens, issued, logins, down>>
    /\ UNCHANGED <<reconcilerVars, provVars, apiVars, fnVars, fleetVars>>

\* the callers waiting for the lock after the same token was rejected
Waiting(t) ==
    {u \in Callers \ {t} : thr[u].pc = "lock" /\ thr[u].conn = thr[t].conn}

\* DoRequestWithRetry, lines 144-157: ask for a new token with the stored
\* server address; on success replace the client and invoke requestFunc
\* again with the appClient of line 131; return the err of line 137 (the
\* err assigned in lines 144-154 is a variable of the if block)
DoRequestWithRetry_Refresh(t, o, o2) ==
    /\ ~down
    /\ thr[t].pc = "refresh"
    /\ logins' = logins \cup {[caller |-> t, rejected |-> thr[t].conn]}
    /\ LET err == getAuthToken(ServerAddr, o)
           r == requestFunc(thr[t].op, thr[t].conn, o2)
           mark(f) == [u \in Callers |->
                          IF u \in Waiting(t) THEN [f[u] EXCEPT !.refreshed = TRUE]
                          ELSE f[u]]
       IN  IF err # NoErr
           THEN /\ thr' = mark([thr EXCEPT ![t] =
                             [@ EXCEPT !.pc = "done", !.endpoint = o,
                                       !.ret = ErrRenewToken]])
                /\ tokenLock' = NoCaller
                /\ UNCHANGED <<argocdClient, validTokens, issued, down>>
           ELSE /\ issued < MaxTokens
                /\ issued' = issued + 1
                /\ validTokens' = validTokens \cup {issued}
                /\ argocdClient' = issued
                /\ IF r.fatal
                   THEN Exit
                   ELSE /\ thr' = mark([thr EXCEPT ![t] =
                                     [@ EXCEPT !.pc = "done", !.endpoint = o,
                                               !.attempts = 2, !.second = r.err,
                                               !.retry = thr[t].conn,
                                               !.ret = thr[t].first]])
                        /\ tokenLock' = NoCaller
                        /\ UNCHANGED down
    /\ UNCHANGED <<reconcilerVars, provVars, apiVars, fnVars, fleetVars>>

\* the server stops accepting a token (the session expired)
TokenExpires(k) ==
    /\ k \in validTokens
    /\ validTokens' = validTokens \ {k}
    /\ UNCHANGED <<argocdClient, tokenLock, issued, thr, logins, down>>
    /\ UNCHANGED <<reconcilerVars, provVars, apiVars, fnVars, fleetVars>>

\* NewClient at the restart of the process: log in at "https://" +
\* serverAddr and build the client; log.Fatalf when the login fails
NewClient(o) ==
    /\ down
    /\ issued < MaxTokens
    /\ getAuthToken(WithHttps(ServerAddr), o) = NoErr
    /\ issued' = issued + 1
    /\ validTokens' = validTokens \cup {issued}
    /\ argocdClient' = issued
    /\ down' = FALSE
    /\ UNCHANGED <<tokenLock, thr, logins>>
    /\ UNCHANGED <<reconcilerVars, provVars, apiVars, fnVars, fleetVars>>

ClientNext ==
    \/ \E t \in Callers, op \in Ops, o \in Outcome : DoRequestWithRetry_Open(t, op, o)
    \/ \E t \in Callers, query \in Queries, o \in Outcome :
          GetApplication_Call(t, query, o)
    \/ \E t \in Callers, o \in Outcome : DoRequestWithRetry_Request(t, o)
    \/ \E t \in Callers : DoRequestWithRetry_Lock(t)
    \/ \E t \in Callers, o \in Outcome, o2 \in Outcome :
          DoRequestWithRetry_Refresh(t, o, o2)
    \/ \E k \in validTokens : TokenExpires(k)
    \/ \E o \in Outcome : NewClient(o)

\* the adapter under concurrent callers
ClientSpec == Init /\ [][ClientNext]_vars

(* ---------------- API server ---------------- *)

\* a URL path is the sequence of its segments: "/api/v1/metrics" is
\* <<"api", "v1", "metrics">>, a trailing slash is a last segment "", and
\* "//api" starts with an empty segment
Paths ==
    {<<"healthz">>, <<"readyz">>, <<"metrics">>, <<"api">>,
     <<"api", "v1", "ephemeral-apps">>,
     <<"api", "v1", "ephemeral-apps", "app1">>,
     <<"api", "v1", "ephemeral-apps", "create">>,
     <<"api", "v1", "metrics">>,
     <<"api", "v2", "metrics">>,
     <<"", "api", "v1", "metrics">>,
     <<"healthz", "..", "api", "v1", "metrics">>}

\* an Authorization header is the sequence of its words, one space between
\* two words; <<>> is the empty (or absent) header
Headers ==
    {<<>>, <<"Bearer">>, <<"Bearer", "good">>, <<"Bearer", "bad">>,
     <<"Bearer", "">>, <<"Bearer", "", "good">>, <<"bearer", "good">>,
     <<"Basic", "good">>, <<"good">>}

\* the tokens (the words after the first space) the cluster authenticates
AuthenticatedTokens == {<<"good">>}

\* strings.HasPrefix(r.URL.Path, "/api/")
HasPrefixApi(path) == Len(path) >= 2 /\ path[1] = "api"

\* strings.SplitN(authHeader, " ", 2): the header itself when it has no
\* space, else its first word and the rest
SplitN2(authHeader) ==
    IF Len(authHeader) <= 1 THEN <<authHeader>>
    ELSE <<<<authHeader[1]>>, Tail(authHeader)>>

\* variant: any two-part header carries a token
bearerToken_AnyScheme(authHeader) ==
    LET parts == SplitN2(authHeader)
    IN  IF Len(parts) # 2 THEN [ok |-> FALSE, token |-> <<>>]
        ELSE [ok |-> TRUE, token |-> parts[2]]

\* Middleware, lines 82-88: the token of a header "Bearer <token>"
bearerToken(authHeader) ==
    LET parts == SplitN2(authHeader)
    IN  IF Len(parts) # 2 \/ parts[1] # <<"Bearer">>
        THEN [ok |-> FALSE, token |-> <<>>]
        ELSE [ok |-> TRUE, token |-> parts[2]]

\* ValidateToken: a TokenReview of the token; o: whether the call to the
\* cluster goes through
ValidateToken(token, o) ==
    IF o = "err" THEN "error"
    ELSE IF token \notin AuthenticatedTokens THEN "rejected"
    ELSE "authenticated"

\* the ServeMux of Routes: a path that is not clean is redirected to its
\* clean form, else the longest matching pattern wins
Route(path) ==
    IF \E i \in 1..Len(path) :
          path[i] \in {".", ".."} \/ (path[i] = "" /\ i < Len(path))
    THEN [status |-> 301, handler |-> "none"]
    ELSE IF path = <<"healthz">> THEN [status |-> 200, handler |-> "HealthCheck"]
    ELSE IF path = <<"readyz">> THEN [status |-> 200, handler |-> "ReadyCheck"]
    ELSE IF path = <<"api", "v1", "ephemeral-apps">>
    THEN [status |-> 200, handler |-> "List"]
    ELSE IF path = <<"api", "v1", "ephemeral-apps", "create">>
    THEN [status |-> 200, handler |-> "Create"]
    ELSE IF path = <<"api", "v1", "metrics">>
    THEN [status |-> 200, handler |-> "GetMetrics"]
    ELSE IF Len(path) >= 4 /\ SubSeq(path, 1, 3) = <<"api", "v1", "ephemeral-apps">>
    THEN [status |-> 200, handler |-> "HandleSingle"]
    ELSE [status |-> 404, handler |-> "none"]

\* Authenticator.Middleware around the mux: what becomes of a request
Middleware(path, authHeader, o) ==
    LET next == Route(path)
        bearer == bearerToken(authHeader)
        review == ValidateToken(bearer.token, o)
        refused == [status |-> 401, handler |-> "none", review |-> "none"]
    IN  IF path = <<"healthz">> \/ path = <<"readyz">>
        THEN next @@ [review |-> "none"]
        ELSE IF ~HasPrefixApi(path) THEN next @@ [review |-> "none"]
        ELSE IF authHeader = <<>> THEN refused
        ELSE IF ~bearer.ok THEN refused
        ELSE IF review # "authenticated" THEN [refused EXCEPT !.review = review]
        ELSE next @@ [review |-> review]

\* the server serves one request
Serve(path, authHeader, o) ==
    /\ LET res == Middleware(path, authHeader, o)
       IN  http' = [pc |-> "served", path |-> path, header |-> authHeader,
                    status |-> res.status, handler |-> res.handler,
                    review |-> res.review]
    /\ UNCHANGED <<reconcilerVars, provVars, clientVars, fnVars, fleetVars>>

ApiNext == \E path \in Paths, authHeader \in Headers, o \in Outcome :
               Serve(path, authHeader, o)

\* the API server on its own
ApiSpec == Init /\ [][ApiNext]_vars

(* ---------------- helper functions ---------------- *)

\* a string of n times the character c
Repeat(c, n) == [i \in 1..n |-> c]

MyApp == <<"M", "y", "_", "A", "p", "p">>
\* "my.app" is a valid metadata.name (a DNS subdomain name)
DottedName == <<"m", "y", ".", "a", "p", "p">>

\* values of spec.namespacePrefix, the empty one read as the default
Prefixes ==
    {DefaultPrefix, Ephemeral, MyApp}
        \cup {Repeat("e", maxLength - 1 + k) : k \in 0..(MaxOver + 1)}

\* values of metadata.name and of a whole-name hint
Hints ==
    {EmptyStr, RecName, MyApp, DottedName, <<"m", "y", "-", "a", "p", "p">>}
        \cup {Repeat("a", maxLength - 1 + k) : k \in 0..(MaxOver + 1)}
        \cup {Repeat("a", maxLength - 1) \o <<"_">> \o Repeat("A", k) :
                  k \in 0..MaxOver}

\* what g.rnd draws: 7 characters of lowercase letters and digits
Suffixes7 == {Repeat("a", 7), Repeat("1", 7), Repeat("a", 6) \o <<"1">>}

\* the characters of the names of the references
Chars ==
    ("" :> EmptyStr)
    @@ ("db" :> <<"d", "b">>)
    @@ ("db-copy" :> <<"d", "b", "-", "c", "o", "p", "y">>)
    @@ ("none" :> <<"n", "o", "n", "e">>)
    @@ ("inline" :> <<"i", "n", "l", "i", "n", "e">>)
    @@ ("settings" :> <<"s", "e", "t", "t", "i", "n", "g", "s">>)

\* variant: the target is always the name of the reference
secretSummary_TargetIsName(secret) ==
    secret.sourceNamespace \o <<"/">> \o Chars[secret.name]
        \o <<" ", "-", ">", " ">> \o Chars[secret.name]

\* buildCopiedSecretsList, the body of the loop:
\* fmt.Sprintf("%s/%s -> %s", secret.SourceNamespace, secret.Name, targetName)
secretSummary(secret) ==
    LET targetName == IF secret.targetName # "" THEN secret.targetName
                      ELSE secret.name
    IN  secret.sourceNamespace \o <<"/">> \o Chars[secret.name]
            \o <<" ", "-", ">", " ">> \o Chars[targetName]

\* buildCopiedSecretsList
buildCopiedSecretsList(secrets) ==
    IF Len(secrets) = 0 THEN NilSlice
    ELSE Slice([i \in 1..Len(secrets) |-> secretSummary(secrets[i])])

\* buildCopiedConfigMapsList, the body of the loop
configMapSummary(cm) ==
    IF cm.data # NoData
    THEN Chars[cm.name] \o <<" ", "(", "i", "n", "l", "i", "n", "e", ")">>
    ELSE cm.sourceNamespace \o <<"/">> \o Chars[cm.name]

\* buildCopiedConfigMapsList
buildCopiedConfigMapsList(configMaps) ==
    IF Len(configMaps) = 0 THEN NilSlice
    ELSE Slice([i \in 1..Len(configMaps) |-> configMapSummary(configMaps[i])])

\* the name generator of the reconciler is called
GenerateNamespace_Apply(prefix, suffix) ==
    /\ applied' = [fn |-> "GenerateNamespace", in |-> <<prefix, suffix>>,
                   out |-> GenerateNamespace(prefix, suffix)]
    /\ UNCHANGED <<reconcilerVars, provVars, clientVars, apiVars, fleetVars>>

\* the name generator that takes the whole name is called
GenerateNamespaceName_Apply(namespaceName, random) ==
    /\ applied' = [fn |-> "GenerateNamespaceName", in |-> <<namespaceName>>,
                   out |-> GenerateNamespaceName(namespaceName, random)]
    /\ UNCHANGED <<reconcilerVars, provVars, clientVars, apiVars, fleetVars>>

buildCopiedSecretsList_Apply(secrets) ==
    /\ applied' = [fn |-> "buildCopiedSecretsList", in |-> secrets,
                   out |-> buildCopiedSecretsList(secrets)]
    /\ UNCHANGED <<reconcilerVars, provVars, clientVars, apiVars, fleetVars>>

buildCopiedConfigMapsList_Apply(configMaps) ==
    /\ applied' = [fn |-> "buildCopiedConfigMapsList", in |-> configMaps,
                   out |-> buildCopiedConfigMapsList(configMaps)]
    /\ UNCHANGED <<reconcilerVars, provVars, clientVars, apiVars, fleetVars>>

\* condition types and statuses handed to setCondition
ConditionTypes == {"Ready", "Progressing", "Degraded"}
ConditionStatuses == {"True", "False"}

\* the conditions of the status after the updates applied so far
CurrentConditions ==
    IF applied.fn = "setCondition" THEN applied.out ELSE <<>>

\* one more condition update of the same status
setCondition_Apply(conditionType, status) ==
    /\ applied' = [fn |-> "setCondition",
                   in |-> [conds |-> CurrentConditions, type |-> conditionType,
                           status |-> status],
                   out |-> setCondition(CurrentConditions, conditionType, status,
                                        "Reason", "message", now)]
    /\ UNCHANGED <<reconcilerVars, provVars, clientVars, apiVars, fleetVars>>

HelperNext ==
    \/ \E conditionType \in ConditionTypes, status \in ConditionStatuses :
           setCondition_Apply(conditionType, status)
    \/ \E prefix \in Prefixes, suffix \in Hints :
           GenerateNamespace_Apply(prefix, suffix)
    \/ \E namespaceName \in Hints, random \in Suffixes7 :
           GenerateNamespaceName_Apply(namespaceName, random)
    \/ \E secrets \in ListsOf(SecretRefs \cup {SecretDb, SecretNamedInline}) :
           buildCopiedSecretsList_Apply(secrets)
    \/ \E configMaps \in ListsOf(ConfigMapRefs) :
           buildCopiedConfigMapsList_Apply(configMaps)

\* the helper functions on their own, applied to any input
HelperSpec == ProvisionInit /\ [][HelperNext]_vars

(* ---------------- several records ---------------- *)

\* values of spec.namespacePrefix the records are created with
FleetPrefixes == {EmptyStr, <<"p", "r">>}

FleetOutcome == {"ok", "nsErr", "appErr", "writeErr"}

\* a user creates a record
UserCreateRecord(k, prefix) ==
    /\ ~fleet[k].exists
    /\ fleet' = [fleet EXCEPT ![k] = NewRecord(k[2], prefix)]
    /\ UNCHANGED <<fleetNamespaces, fleetApps>>
    /\ UNCHANGED <<reconcilerVars, provVars, clientVars, apiVars, fnVars>>

\* a user deletes a record
UserDeleteRecord(k) ==
    /\ fleet[k].exists /\ ~fleet[k].deletionTimestamp
    /\ fleet' = [fleet EXCEPT ![k] = DeleteObject(fleet[k])]
    /\ UNCHANGED <<fleetNamespaces, fleetApps>>
    /\ UNCHANGED <<reconcilerVars, provVars, clientVars, apiVars, fnVars>>

\* handlePendingPhase, line 101: the namespace name of record k
FleetNamespace(k, e) == GenerateNamespace(getNamespacePrefix(e), e.name)

\* Reconcile of a record in phase "" or Pending, from the Get to the
\* return: the finalizer is added, then handlePendingPhase creates the
\* namespace (one that exists is accepted) and the application named after
\* the record (the server answers an application of that name with the
\* same destination as created, one with another destination with an
\* error), and writes the status
handlePendingPhase_Pass(k, o) ==
    /\ fleet[k].exists /\ ~fleet[k].deletionTimestamp
    /\ fleet[k].status.phase \in {"", "Pending"}
    /\ LET e == [fleet[k] EXCEPT !.finalizer = TRUE]
           namespace == FleetNamespace(k, e)
           name == e.name
           appRefused == \/ o = "appErr"
                         \/ name \in DOMAIN fleetApps /\ fleetApps[name] # namespace
           written(c) == IF o = "writeErr" THEN e
                         ELSE [e EXCEPT !.status = c.eph.status]
       IN  IF o = "nsErr"
           THEN /\ fleet' = [fleet EXCEPT ![k] =
                               written(updateStatusWithError(e, "Failed",
                                   "Failed to create namespace", ErrInternal, now))]
                /\ UNCHANGED <<fleetNamespaces, fleetApps>>
           ELSE /\ fleetNamespaces' = fleetNamespaces \cup {namespace}
                /\ IF appRefused
                   THEN /\ fleet' = [fleet EXCEPT ![k] =
                               written(updateStatusWithError(e, "Failed",
                                   "Failed to create ArgoCD application",
                                   ErrAppNotCreated, now))]
                        /\ UNCHANGED fleetApps
                   ELSE /\ fleet' = [fleet EXCEPT ![k] =
                               written(handlePendingPhaseCreated(e, namespace,
                                                                 name, now))]
                        /\ fleetApps' = (name :> namespace) @@ fleetApps
    /\ UNCHANGED <<reconcilerVars, provVars, clientVars, apiVars, fnVars>>

\* Reconcile of a record with a deletion timestamp, from the Get to the
\* return: handleDeletion deletes the application and the namespace named
\* in the status and removes the finalizer
handleDeletion_Pass(k, o) ==
    /\ fleet[k].exists /\ fleet[k].deletionTimestamp /\ fleet[k].finalizer
    /\ LET e == fleet[k]
           appName == e.status.argoApplicationName
           namespace == e.status.namespace
           appFails == appName # EmptyStr /\ o = "appErr"
           nsFails == namespace # EmptyStr /\ o = "nsErr"
       IN  /\ fleetApps' =
                 IF appName # EmptyStr /\ ~appFails
                 THEN [n \in DOMAIN fleetApps \ {appName} |-> fleetApps[n]]
                 ELSE fleetApps
           /\ fleetNamespaces' =
                 IF namespace # EmptyStr /\ ~appFails /\ ~nsFails
                 THEN fleetNamespaces \ {namespace}
                 ELSE fleetNamespaces
           /\ fleet' =
                 IF appFails \/ nsFails \/ o = "writeErr" THEN fleet
                 ELSE [fleet EXCEPT ![k] = NoRecord]
    /\ UNCHANGED <<reconcilerVars, provVars, clientVars, apiVars, fnVars>>

FleetNext ==
    \/ \E k \in FleetKeys, prefix \in FleetPrefixes : UserCreateRecord(k, prefix)
    \/ \E k \in FleetKeys : UserDeleteRecord(k)
    \/ \E k \in FleetKeys, o \in FleetOutcome : handlePendingPhase_Pass(k, o)
    \/ \E k \in FleetKeys, o \in FleetOutcome : handleDeletion_Pass(k, o)

\* several records reconciled side by side on one cluster
FleetSpec == ProvisionInit /\ [][FleetNext]_vars

(* ---------------- observations ---------------- *)

LastCall == calls[Len(calls)]

\* the step just taken made a store / ArgoCD call
Called(op) == calls' # calls /\ calls'[Len(calls')].op = op

CalledOk(op) == Called(op) /\ calls'[Len(calls')].res = NoErr

HasCondition(st, type, status, reason) ==
    \E i \in 1..Len(st.conditions) :
        /\ st.conditions[i].type = type
        /\ st.conditions[i].status = status
        /\ st.conditions[i].reason = reason

Phases == {"", "Pending", "Creating", "Active", "Failed", "Expiring"}

\* the step just taken is a pass's Get that found the record
Fetched ==
    /\ pc = "idle"
    /\ calls' = <<Call("Get", NoErr)>>
    /\ UNCHANGED <<rec, now, namespaces, argoApps>>

\* the step just taken evaluated the expiry test of Reconcile
ExpiryTested ==
    \/ Fetched /\ ~rec.deletionTimestamp /\ rec.finalizer
    \/ CalledOk("AddFinalizer")

(* ---------------- C1 ---------------- *)

\* C1: a pass on a record without deletion timestamp that observes
\* now > spec.expirationDate, whatever the persisted phase, does not run
\* the phase handler: it sets phase Expiring with Ready=False/Expiring,
\* writes that status, and only after that write succeeded deletes the
\* record, which then carries its deletion timestamp.
C1_ExpiredPassExpiresThenDeletes ==
    [][/\ (ExpiryTested /\ now > rec'.expirationDate) =>
             /\ rec.status.phase \in Phases
             /\ pc' = "handleExpiration_StatusUpdate"
             /\ ephApp'.status.phase = "Expiring"
             /\ HasCondition(ephApp'.status, "Ready", "False", "Expiring")
       /\ (pc = "handleExpiration_StatusUpdate" /\ CalledOk("StatusUpdate")) =>
             /\ rec'.status.phase = "Expiring"
             /\ HasCondition(rec'.status, "Ready", "False", "Expiring")
             /\ pc' = "handleExpiration_Delete"
       /\ pc' = "handleExpiration_Delete" =>
             /\ rec'.exists
             /\ rec'.status.phase = "Expiring"
             /\ \A i \in 1..Len(calls') :
                   calls'[i].op \in {"Get", "AddFinalizer", "StatusUpdate"}
       /\ (pc = "handleExpiration_Delete" /\ pc' = "idle" /\ result'.kind # "crash") =>
             /\ Called("DeleteRecord")
             /\ result'.kind = "ok" => rec'.exists /\ rec'.deletionTimestamp
       /\ Called("DeleteRecord") => pc = "handleExpiration_Delete"
      ]_vars

\* an expired pass has written Expiring over a record that had been Active
\* and its delete of the record went through
C1_Witness ==
    /\ pc = "idle" /\ result.kind = "ok"
    /\ Len(calls) = 3 /\ LastCall = Call("DeleteRecord", NoErr)
    /\ rec.exists /\ rec.deletionTimestamp
    /\ rec.status.phase = "Expiring"
    /\ rec.status.lastSyncTime # NoTime

(* ---------------- C2 ---------------- *)

\* C2: whenever the record has fully disappeared, no namespace and no
\* ArgoCD application created by one of its passes still exists.
C2_NothingLeftBehind ==
    ~rec.exists => createdNs = {} /\ createdApps = {}

(* ---------------- C3 ---------------- *)

\* a delete that succeeded or reported not-found
DeleteSatisfied(res) == res = NoErr \/ res.reason = "NotFound"

DeleteOps == {"DeleteApplication", "DeleteNamespace"}

\* C3 as stated: the finalizer is removed only in a pass in which the
\* application delete and the namespace delete each succeeded or reported
\* not-found.
C3_Original ==
    (Len(calls) > 0 /\ LastCall = Call("RemoveFinalizer", NoErr)) =>
        \A op \in DeleteOps :
            \E i \in 1..Len(calls) :
                calls[i].op = op /\ DeleteSatisfied(calls[i].res)

\* C3 amended: a teardown pass issues the application delete exactly when
\* status.argoApplicationName is non-empty and the namespace delete exactly
\* when status.namespace is non-empty; the finalizer is removed only in a
\* pass in which each delete it issued succeeded or reported not-found; a
\* delete failing otherwise ends the pass with that error and the finalizer
\* still on the record, and the next pass starts again at the application
\* delete.
C3_TeardownRemovesFinalizerLast ==
    [][/\ Called("RemoveFinalizer") =>
             /\ \A i \in 1..Len(calls) :
                   calls[i].op \in DeleteOps => DeleteSatisfied(calls[i].res)
             /\ (ephApp.status.argoApplicationName # EmptyStr) <=>
                   (\E i \in 1..Len(calls) : calls[i].op = "DeleteApplication")
             /\ (ephApp.status.namespace # EmptyStr) <=>
                   (\E i \in 1..Len(calls) : calls[i].op = "DeleteNamespace")
       /\ (rec.finalizer /\ ~rec'.finalizer) => CalledOk("RemoveFinalizer")
       /\ \A op \in DeleteOps :
             (Called(op) /\ ~DeleteSatisfied(calls'[Len(calls')].res)) =>
                 /\ pc' = "idle"
                 /\ result'.kind = "err"
                 /\ result'.err = calls'[Len(calls')].res
                 /\ rec'.exists /\ rec'.finalizer
       /\ (Fetched /\ rec.deletionTimestamp /\ rec.finalizer) =>
             pc' = IF rec.status.argoApplicationName # EmptyStr
                   THEN "handleDeletion_DeleteApplication"
                   ELSE IF rec.status.namespace # EmptyStr
                   THEN "handleDeletion_DeleteNamespace"
                   ELSE "handleDeletion_RemoveFinalizer"
      ]_vars

\* a teardown pass issued both deletes and then removed the finalizer
C3_Witness ==
    /\ ~rec.exists
    /\ Len(calls) = 4
    /\ calls[2].op = "DeleteApplication"
    /\ calls[3] = Call("DeleteNamespace", NoErr)
    /\ calls[4] = Call("RemoveFinalizer", NoErr)

(* ---------------- C4 ---------------- *)

SideEffectOps == {"CreateNamespace", "CreateApplication", "DeleteRecord"}

\* C4: in a pass on a record that is not being deleted, the namespace
\* create, the application create and the record delete are issued only
\* while the finalizer is persisted on the record; a pass whose finalizer
\* write fails returns that error and has made none of these calls and
\* changed nothing.
C4_FinalizerBeforeSideEffects ==
    [][/\ \A op \in SideEffectOps :
             Called(op) => rec.exists /\ rec.finalizer
       /\ (Called("AddFinalizer") /\ calls'[Len(calls')].res # NoErr) =>
             /\ pc' = "idle"
             /\ result'.kind = "err"
             /\ result'.err = calls'[Len(calls')].res
             /\ \A i \in 1..Len(calls') : calls'[i].op \notin SideEffectOps
             /\ UNCHANGED <<rec, namespaces, argoApps>>
       /\ Called("AddFinalizer") =>
             \A i \in 1..Len(calls) : calls[i].op \notin SideEffectOps
      ]_vars

\* the pass that persisted the finalizer went on to create the namespace
C4_Witness ==
    /\ Len(calls) >= 3
    /\ calls[2] = Call("AddFinalizer", NoErr)
    /\ calls[3] = Call("CreateNamespace", NoErr)
    /\ rec.exists /\ rec.finalizer

(* ---------------- C5 ---------------- *)

\* C5: once phase Expiring is persisted, the record is eventually gone
\* (deleted, torn down, finalizer removed), under fair scheduling and calls
\* that eventually succeed.
C5_ExpiringLeadsToGone ==
    (rec.exists /\ rec.status.phase = "Expiring") ~> ~rec.exists

(* ---------------- C6 ---------------- *)

PhaseMoveAllowed(p, q) ==
    \/ q = p
    \/ q \in {"Failed", "Expiring"}
    \/ p \in {"", "Pending"} /\ q = "Creating"
    \/ p = "Creating" /\ q = "Active"

\* C6: the persisted phase only stays, moves forward along
\* Pending -> Creating -> Active, or moves to Failed or to Expiring; it
\* never moves back from Active, Creating, Failed or Expiring.
C6_PhaseMonotonic ==
    [][/\ PhaseMoveAllowed(rec.status.phase, rec'.status.phase)
       /\ rec.status.phase \in {"Failed", "Expiring"} =>
             rec'.status.phase \notin {"", "Pending", "Creating", "Active"}
       /\ rec.status.phase = "Active" =>
             rec'.status.phase \notin {"", "Pending", "Creating"}
       /\ rec.status.phase = "Creating" =>
             rec'.status.phase \notin {"", "Pending"}
      ]_vars

\* a pass has run over a Failed record that is neither expired nor being
\* deleted, and has left it Failed
C6_Witness ==
    /\ pc = "idle" /\ calls = <<Call("Get", NoErr)>>
    /\ result = [kind |-> "ok", err |-> NoErr, requeueAfter |-> ReconcileInterval]
    /\ rec.exists /\ ~rec.deletionTimestamp /\ rec.finalizer
    /\ rec.status.phase = "Failed"

(* ---------------- C7 ---------------- *)

\* C7: status.namespace changes only in the status write of the Pending
\* pass that moves the record to Creating, and only from empty: once
\* non-empty, no pass changes it.
C7_NamespaceAssignedOnce ==
    [][rec'.status.namespace # rec.status.namespace =>
          /\ pc = "handlePendingPhase_StatusUpdate"
          /\ rec.status.phase \in {"", "Pending"}
          /\ rec.status.namespace = EmptyStr
          /\ rec'.status.phase = "Creating"
      ]_vars

\* the record kept its namespace through Creating and Active into Expiring
C7_Witness ==
    /\ rec.status.phase = "Expiring"
    /\ rec.status.lastSyncTime # NoTime
    /\ rec.status.namespace = GenerateNamespace(DefaultPrefix, RecName)

(* ---------------- C8 ---------------- *)

NamespaceCreatedOrThere(cs) ==
    \E i \in 1..Len(cs) :
        /\ cs[i].op = "CreateNamespace"
        /\ cs[i].res = NoErr \/ IsAlreadyExists(cs[i].res)

\* C8: a Pending pass whose namespace create succeeded or reported
\* already-exists and whose application create succeeded writes a status
\* with phase Creating, a non-empty namespace, a non-empty application name
\* and Ready=False/Creating, and asks for a requeue after 30 seconds.
C8_PendingSuccessYieldsCreating ==
    [][/\ (pc = "handlePendingPhase_CreateApplication"
              /\ CalledOk("CreateApplication")) =>
             /\ rec.status.phase \in {"", "Pending"}
             /\ NamespaceCreatedOrThere(calls)
             /\ pc' = "handlePendingPhase_StatusUpdate"
       /\ (pc = "handlePendingPhase_StatusUpdate" /\ CalledOk("StatusUpdate")) =>
             /\ rec'.status.phase = "Creating"
             /\ rec'.status.namespace # EmptyStr
             /\ rec'.status.namespace = GenerateNamespace(getNamespacePrefix(rec), rec.name)
             /\ rec'.status.argoApplicationName # EmptyStr
             /\ HasCondition(rec'.status, "Ready", "False", "Creating")
             /\ pc' = "idle"
             /\ result' = [kind |-> "ok", err |-> NoErr,
                           requeueAfter |-> RequeueCreating]
      ]_vars

\* a re-run Pending pass found the namespace already there, created the
\* application and persisted Creating
C8_Witness ==
    /\ pc = "idle"
    /\ Len(calls) = 4
    /\ calls[2] = Call("CreateNamespace", ErrAlreadyExists)
    /\ calls[3] = Call("CreateApplication", NoErr)
    /\ calls[4] = Call("StatusUpdate", NoErr)
    /\ rec.status.phase = "Creating"

(* ---------------- C9 ---------------- *)

PendingCreateOps == {"CreateNamespace", "CreateApplication"}

\* C9: in the Pending pass a namespace create failing with an error other
\* than already-exists, or a failing application create, stops the pass:
\* no application is created after a failed namespace create, and the pass
\* writes phase Failed, the error in status.message and Ready=False/Error.
C9_PendingFailureYieldsFailed ==
    [][/\ \A op \in PendingCreateOps :
             (Called(op) /\ calls'[Len(calls')].res # NoErr
                 /\ ~(op = "CreateNamespace"
                        /\ IsAlreadyExists(calls'[Len(calls')].res))) =>
                 /\ pc' = "updateStatusWithError_StatusUpdate"
                 /\ UNCHANGED <<argoApps, namespaces>>
       /\ Called("CreateApplication") =>
             /\ pc = "handlePendingPhase_CreateApplication"
             /\ NamespaceCreatedOrThere(calls)
       /\ (pc = "updateStatusWithError_StatusUpdate" /\ CalledOk("StatusUpdate")) =>
             /\ LastCall.res # NoErr
             /\ rec'.status.phase = "Failed"
             /\ rec'.status.message.err = LastCall.res
             /\ HasCondition(rec'.status, "Ready", "False", "Error")
      ]_vars

\* the namespace create failed, no application exists, Failed is persisted
C9_Witness ==
    /\ pc = "idle"
    /\ Len(calls) >= 3
    /\ calls[Len(calls) - 1] = Call("CreateNamespace", ErrInternal)
    /\ LastCall = Call("StatusUpdate", NoErr)
    /\ rec.status.phase = "Failed"
    /\ rec.status.message.err = ErrInternal
    /\ DOMAIN argoApps = {}

(* ---------------- C10 ---------------- *)

\* C10: a Creating pass that finds the application Synced and Healthy
\* writes phase Active with lastSyncTime set and Ready=True/Active; one
\* that finds any other sync / health combination writes no status, so
\* the persisted phase stays Creating, and asks for a requeue after 30
\* seconds.
C10_CreatingToActiveOnlySyncedHealthy ==
    [][/\ (pc = "handleCreatingPhase_GetApplication"
              /\ CalledOk("GetApplication")) =>
             /\ rec.status.phase = "Creating"
             /\ LET app == argoApps[ephApp.status.argoApplicationName]
                IN  IF app.sync = "Synced" /\ app.health = "Healthy"
                    THEN pc' = "handleCreatingPhase_StatusUpdate"
                    ELSE /\ pc' = "idle"
                         /\ rec' = rec
                         /\ \A i \in 1..Len(calls') : calls'[i].op # "StatusUpdate"
                         /\ result' = [kind |-> "ok", err |-> NoErr,
                                       requeueAfter |-> RequeueCreating]
       /\ (pc = "handleCreatingPhase_StatusUpdate" /\ CalledOk("StatusUpdate")) =>
             /\ rec.status.phase = "Creating"
             /\ rec'.status.phase = "Active"
             /\ rec'.status.lastSyncTime # NoTime
             /\ HasCondition(rec'.status, "Ready", "True", "Active")
       /\ (rec.status.phase = "Creating" /\ rec'.status.phase = "Active") =>
             pc = "handleCreatingPhase_StatusUpdate"
      ]_vars

\* a Creating pass found the application Synced and Healthy and persisted Active
C10_Witness ==
    /\ pc = "idle"
    /\ Len(calls) = 3
    /\ calls[2] = Call("GetApplication", NoErr)
    /\ calls[3] = Call("StatusUpdate", NoErr)
    /\ rec.status.phase = "Active"
    /\ rec.status.lastSyncTime # NoTime

(* ---------------- C11 ---------------- *)

GetApplicationSites ==
    {"handleCreatingPhase_GetApplication", "handleActivePhase_GetApplication"}

\* C11: when a Creating or Active pass looks up an application that no
\* longer exists, the lookup's not-found reaches the reconciler, which goes
\* on to write phase Failed with Ready=False (in Active with the message
\* that the application disappeared); that write, when it succeeds, ends
\* the pass normally with a requeue.
C11_GetNotFoundYieldsFailed ==
    [][/\ (pc \in GetApplicationSites /\ Called("GetApplication")
              /\ calls'[Len(calls')].res.reason = "NotFound") =>
             /\ pc' = "updateStatusWithError_StatusUpdate"
             /\ ephApp'.status.phase = "Failed"
             /\ HasCondition(ephApp'.status, "Ready", "False", "Error")
             /\ pc = "handleActivePhase_GetApplication" =>
                   ephApp'.status.message.text = "ArgoCD application disappeared"
       /\ (pc = "updateStatusWithError_StatusUpdate" /\ CalledOk("StatusUpdate")) =>
             /\ rec'.status.phase = "Failed"
             /\ result'.kind = "ok" /\ result'.requeueAfter > 0
      ]_vars

(* ---------------- C12 ---------------- *)

\* C12: teardown is idempotent: a delete of an application or a namespace
\* that is already absent counts as done, so the pass goes on towards the
\* finalizer removal instead of ending with an error; and a teardown pass
\* over a record without finalizer makes no delete and no write.
C12_TeardownIdempotent ==
    [][/\ \A op \in DeleteOps :
             (Called(op) /\ calls'[Len(calls')].res.reason = "NotFound") =>
                 /\ result'.kind # "err"
                 /\ pc' \in {"handleDeletion_DeleteNamespace",
                             "handleDeletion_RemoveFinalizer"}
       /\ (Fetched /\ rec.deletionTimestamp /\ ~rec.finalizer) =>
             /\ pc' = "idle"
             /\ result'.kind = "ok"
      ]_vars

(* ---------------- C13 ---------------- *)

\* C13: a finished adapter call invoked its operation at most twice; when
\* the first invocation was rejected as unauthorized and the session
\* endpoint accepts the credentials, it re-authenticated, invoked the
\* operation a second time and returned that invocation's result as is;
\* an error that is not an authorization error, and a failed re-login, are
\* returned without a second invocation.
C13_RetryOnceOnUnauthorized ==
    \A t \in Callers :
        thr[t].pc = "done" =>
            /\ thr[t].attempts <= 2
            /\ (isUnauthorized(thr[t].first) /\ thr[t].endpoint = "ok") =>
                  /\ thr[t].attempts = 2
                  /\ thr[t].ret = thr[t].second
            /\ thr[t].attempts = 2 => isUnauthorized(thr[t].first)
            /\ (thr[t].attempts = 1 /\ ~isUnauthorized(thr[t].first)) =>
                  thr[t].ret = thr[t].first
            /\ thr[t].endpoint = "err" =>
                  thr[t].attempts = 1 /\ thr[t].ret # NoErr

(* ---------------- C14 ---------------- *)

\* C14: of the callers whose first invocations were rejected for the same
\* expired token and that wait for the lock together, one re-login is
\* made: a caller that waited while another one asked for a new token for
\* that rejected token does not ask the session endpoint again.
C14_OneReloginForConcurrentFailures ==
    [][\A t \in Callers :
          (thr[t].pc = "refresh" /\ thr'[t].pc = "done") => ~thr[t].refreshed
      ]_vars

(* ---------------- C15 ---------------- *)

\* C15: a call whose first invocation was rejected as unauthorized and
\* whose re-login the session endpoint accepts invokes the operation again
\* over a connection carrying the newly obtained token, not the token of
\* the connection opened before the re-login.
C15_RetryCarriesNewToken ==
    [][\A t \in Callers :
          (thr[t].pc = "refresh" /\ thr'[t].pc = "done"
              /\ thr'[t].endpoint = "ok") =>
              /\ thr'[t].attempts = 2
              /\ thr'[t].retry = argocdClient'
              /\ thr'[t].retry # thr[t].conn
      ]_vars

\* the keys under which the provisioner writes the references of a record
\* into a boundary
TargetKeys(e, namespace) ==
    {<<"Secret", namespace, targetNameOf(e.secrets[k])>> : k \in 1..Len(e.secrets)}
    \cup {<<"ConfigMap", namespace, e.configMaps[k].name>> :
              k \in 1..Len(e.configMaps)}

\* C16: when the Pending pass submits the creation request for the remote
\* application, every secret reference and every config-map reference of
\* the record has been provisioned into the boundary: the object each
\* reference names exists there.
C16_ProvisionedBeforeCreate ==
    [][Called("CreateApplication") =>
          TargetKeys(ephApp, request'.namespace) \subseteq DOMAIN objects]_vars

\* C17: the creation request built in the Pending pass carries the
\* ignoreDifferences list of the record: one Secret entry per secret
\* reference under its target name and one ConfigMap entry per config-map
\* reference under its name, the names the provisioner writes under.
C17_RequestCarriesIgnoreDifferences ==
    [][Called("CreateApplication") =>
          /\ request'.ignoreDifferences = BuildIgnoreDifferences(ephApp)
          /\ {<<d.kind, request'.namespace, d.name>> :
                 d \in {request'.ignoreDifferences[k] :
                           k \in 1..Len(request'.ignoreDifferences)}}
                = TargetKeys(ephApp, request'.namespace)]_vars

\* the step just taken is a provisioning call being made
ProvisionCalled == prov.pc \in {"idle", "done"} /\ prov' # prov

\* the step just taken provisioned the reference at position prov.i
ProvisionStepped == prov.pc \in {"copySecrets", "copyConfigMaps"} /\ prov' # prov

\* the reference a provisioning call is at, and the key it writes
CurrentRef ==
    IF prov.call = "copySecrets" THEN prov.eph.secrets[prov.i]
    ELSE prov.eph.configMaps[prov.i]

CurrentKey ==
    IF prov.call = "copySecrets"
    THEN <<"Secret", prov.target, targetNameOf(CurrentRef)>>
    ELSE <<"ConfigMap", prov.target, CurrentRef.name>>

\* the keys whose object was created, changed or removed by the step
Touched ==
    {k \in DOMAIN objects \cup DOMAIN objects' :
        \/ k \notin DOMAIN objects
        \/ k \notin DOMAIN objects'
        \/ objects'[k] # objects[k]}

\* C18: a provisioning call on an empty reference list returns success and
\* writes nothing.  Otherwise the references are taken one at a time, in
\* order: a step writes at most the object of the reference it is at, a
\* reference is tried only while none before it failed, and the failure of
\* the reference at position i ends the call at once, with an error naming
\* that reference and without a write, so that no reference after position
\* i is created or updated.
C18_FailFast ==
    [][ /\ (ProvisionCalled /\ prov'.n = 0) =>
              (prov'.pc = "done" /\ prov'.err = NoErr /\ objects' = objects)
        /\ (ProvisionCalled /\ prov'.n > 0) =>
              (prov'.pc = prov'.call /\ prov'.i = 1 /\ prov'.err = NoErr
               /\ objects' = objects)
        /\ ProvisionStepped =>
              /\ prov.err = NoErr
              /\ Touched \subseteq {CurrentKey}
              /\ prov'.err # NoErr =>
                    /\ prov'.pc = "done"
                    /\ prov'.failed = CurrentRef.name
                    /\ prov'.i = prov.i
                    /\ objects' = objects
              /\ (prov'.err = NoErr /\ prov.i < prov.n) =>
                    (prov'.pc = prov.pc /\ prov'.i = prov.i + 1 /\ prov'.eph = prov.eph)
              /\ (prov'.err = NoErr /\ prov.i = prov.n) => prov'.pc = "done"
      ]_vars

\* the first of two secret references failed: the call is over with an
\* error naming it and the object of the second one was not created
C18_Witness ==
    /\ prov.pc = "done"
    /\ prov.call = "copySecrets"
    /\ prov.n = 2
    /\ prov.i = 1
    /\ prov.err # NoErr
    /\ prov.failed = "none"
    /\ <<"Secret", prov.target, "db-copy">> \notin DOMAIN objects

\* the source of the reference a provisioning call is at: its inline
\* values when it has any, else the shared object it names
CurrentIsInline ==
    IF prov.call = "copySecrets" THEN DOMAIN CurrentRef.values # {}
    ELSE DOMAIN CurrentRef.data # {}

SourceKey ==
    <<IF prov.call = "copySecrets" THEN "Secret" ELSE "ConfigMap",
      CurrentRef.sourceNamespace, CurrentRef.name>>

SourceAvailable == CurrentIsInline \/ SourceKey \in DOMAIN objects

SourceData ==
    IF ~CurrentIsInline THEN objects[SourceKey].data
    ELSE IF prov.call = "copySecrets"
         THEN [k \in DOMAIN CurrentRef.values |-> StringToBytes(CurrentRef.values[k])]
         ELSE CurrentRef.data

SourceType ==
    IF prov.call = "copyConfigMaps" THEN ""
    ELSE IF CurrentIsInline THEN "Opaque"
    ELSE objects[SourceKey].type

\* C19: provisioning a reference whose target already exists in the
\* boundary, as it does when the same reference is provisioned a second
\* time, succeeds whenever the source is there and the store accepts the
\* calls; it leaves the target with the data and the type of the source,
\* whether the source or the target changed in between or not, writes
\* nothing else and creates no further object; a target that already
\* agrees with the source is left exactly as it was.
C19_IdempotentUpsert ==
    [][(/\ ProvisionStepped
        /\ CurrentKey \in DOMAIN objects
        /\ SourceAvailable
        /\ prov'.o = "ok") =>
          /\ prov'.err = NoErr
          /\ prov'.did = "updated"
          /\ DOMAIN objects' = DOMAIN objects
          /\ Touched \subseteq {CurrentKey}
          /\ objects'[CurrentKey].data = SourceData
          /\ objects'[CurrentKey].type = SourceType
          /\ (objects[CurrentKey].data = SourceData
               /\ objects[CurrentKey].type = SourceType) => objects' = objects
      ]_vars

\* a copied secret whose source was edited after the first copy has been
\* provisioned again: the target, still the object the first copy stamped,
\* holds the edited data of the source
C19_Witness ==
    LET key == <<"Secret", prov.target, "db-copy">>
        src == <<"Secret", Infra, "db">>
    IN  /\ prov.pc = "done"
        /\ prov.call = "copySecrets"
        /\ prov.n = 1
        /\ prov.err = NoErr
        /\ prov.o = "ok"
        /\ prov.did = "updated"
        /\ key \in DOMAIN objects
        /\ src \in DOMAIN objects
        /\ "ephemeral.argo.io/copied-from" \in DOMAIN objects[key].labels
        /\ objects[key].type = "kubernetes.io/tls"
        /\ objects[key].data = objects[src].data
        /\ objects[src].data = ("k" :> StringToBytes("w"))

\* the provenance a reference calls for: the managed-by marker, the owner
\* label with the record's name, and either the inline marker alone or the
\* copied-from and source-name labels with their annotations
ExpectedLabels ==
    ("app.kubernetes.io/managed-by" :> "argo-ephemeral-operator")
    @@ ("ephemeral.argo.io/owner" :> prov.eph.name)
    @@ (IF CurrentIsInline
        THEN ("ephemeral.argo.io/inline" :> "true")
        ELSE ("ephemeral.argo.io/copied-from" :> CurrentRef.sourceNamespace)
             @@ ("ephemeral.argo.io/source-name" :> CurrentRef.name))

ExpectedAnnotations ==
    IF CurrentIsInline THEN NoData
    ELSE ("ephemeral.argo.io/source-namespace" :> CurrentRef.sourceNamespace)
         @@ ((IF prov.call = "copySecrets" THEN "ephemeral.argo.io/source-secret"
              ELSE "ephemeral.argo.io/source-configmap") :> CurrentRef.name)

\* C20 as stated: after every successful provisioning of a reference the
\* object holds the data of the reference's source (the inline values when
\* there are any, whether or not sourceNamespace is set, else the source
\* object's data) and carries the provenance that goes with it.
C20_Original ==
    [][(ProvisionStepped /\ prov'.err = NoErr) =>
          /\ objects'[CurrentKey].data = SourceData
          /\ objects'[CurrentKey].labels = ExpectedLabels]_vars

\* C20: the object a reference's provisioning creates holds the data of
\* the reference's source (inline values first, whether or not
\* sourceNamespace is set) and carries exactly the provenance that goes
\* with it: managed-by, owner with the record's name, and inline=true
\* without copied-from markers or copied-from and source-name with their
\* annotations.  When the target already exists its data is overwritten
\* from the source while its labels and annotations stay as they were
\* found.
C20_ProvenanceAgreesOnCreate ==
    [][(ProvisionStepped /\ prov'.err = NoErr) =>
          /\ prov'.did \in {"created", "updated"}
          /\ prov'.did = "created" <=> CurrentKey \notin DOMAIN objects
          /\ objects'[CurrentKey].data = SourceData
          /\ prov'.did = "created" =>
                /\ objects'[CurrentKey].type = SourceType
                /\ objects'[CurrentKey].labels = ExpectedLabels
                /\ objects'[CurrentKey].annotations = ExpectedAnnotations
          /\ prov'.did = "updated" =>
                /\ objects'[CurrentKey].labels = objects[CurrentKey].labels
                /\ objects'[CurrentKey].annotations = objects[CurrentKey].annotations
      ]_vars

\* a secret reference with inline values and a source namespace created its
\* target: the object holds the inline value, not the data of the source it
\* names, and carries the inline marker
C20_Witness ==
    LET key == <<"Secret", prov.target, "db-copy">>
        src == <<"Secret", Infra, "db">>
    IN  /\ prov.pc = "done"
        /\ prov.call = "copySecrets"
        /\ prov.n = 1
        /\ prov.err = NoErr
        /\ prov.did = "created"
        /\ key \in DOMAIN objects
        /\ src \in DOMAIN objects
        /\ objects[src].data = ("k" :> StringToBytes("v"))
        /\ objects[key].data = ("k" :> StringToBytes("w"))
        /\ objects[key].type = "Opaque"
        /\ objects[key].labels =
              ("app.kubernetes.io/managed-by" :> "argo-ephemeral-operator")
              @@ ("ephemeral.argo.io/owner" :> RecName)
              @@ ("ephemeral.argo.io/inline" :> "true")

\* C21: provisioning a reference that has no inline values and whose source
\* object is not there (no sourceNamespace, or the named object missing
\* from it) fails: the call ends with an error naming that reference, and
\* nothing is written, so no target object is created for it.
C21_NoSourceFails ==
    [][(ProvisionStepped /\ ~SourceAvailable) =>
          /\ prov'.pc = "done"
          /\ prov'.err # NoErr
          /\ prov'.failed = CurrentRef.name
          /\ prov'.did = "failed"
          /\ objects' = objects]_vars

\* the source of a copied secret reference was deleted and the reference
\* was provisioned: the call failed naming it and there is no target
C21_Witness ==
    /\ prov.pc = "done"
    /\ prov.call = "copySecrets"
    /\ prov.err = ErrNotFound
    /\ prov.failed = "db"
    /\ prov.did = "failed"
    /\ <<"Secret", Infra, "db">> \notin DOMAIN objects
    /\ <<"Secret", prov.target, "db-copy">> \notin DOMAIN objects

\* C22: GetApplication called with a query in which no field is populated
\* returns an error without a network call: no connection is opened for it
\* and no request is sent.
C22_EmptyQueryRefused ==
    [][\A t \in Callers :
          (/\ thr[t].pc \in {"idle", "done"}
           /\ thr'[t] # thr[t]
           /\ thr'[t].op = "Get"
           /\ \A f \in DOMAIN thr'[t].query : thr'[t].query[f] = Nil) =>
             /\ thr'[t].pc = "done"
             /\ thr'[t].ret = ErrNameRequired
             /\ thr'[t].conn = NoToken
             /\ thr'[t].attempts = 0]_vars

\* C23: the creation request built in the Pending pass carries the
\* automated prune and selfHeal of the record's spec.syncPolicy when the
\* record gives a policy, and prune and selfHeal both on when it gives
\* none.
C23_RequestCarriesSyncPolicy ==
    [][Called("CreateApplication") =>
          /\ ephApp.syncPolicy = NilPtr =>
                (request'.prune /\ request'.selfHeal)
          /\ (ephApp.syncPolicy # NilPtr
               /\ Deref(ephApp.syncPolicy).automated # NilPtr) =>
                /\ request'.prune =
                      Deref(Deref(ephApp.syncPolicy).automated).prune
                /\ request'.selfHeal =
                      Deref(Deref(ephApp.syncPolicy).automated).selfHeal
                /\ [automated |-> PtrTo([prune |-> request'.prune,
                                         selfHeal |-> request'.selfHeal])]
                      = buildSyncPolicy(ephApp)]_vars

\* the record still holds an expiration date from before its creation: it
\* was expired at its first reconciliation and at every one since
ExpiredFromTheStart == rec.expirationDate = PastDate

\* C24: for a record whose expirationDate is already in the past at its
\* first reconciliation no pass ever creates a namespace or a remote
\* application: every pass that reaches the expiry test goes straight to
\* Expiring, the delete of the record follows the status write, and the
\* teardown pass that comes after issues no delete of a namespace or an
\* application and removes the finalizer, with which the record is gone.
C24_ExpiredAtFirstPassCreatesNothing ==
    [][ExpiredFromTheStart =>
          /\ createdNs' = {} /\ createdApps' = {}
          /\ namespaces' = {} /\ DOMAIN argoApps' = {}
          /\ ~Called("CreateNamespace") /\ ~Called("CreateApplication")
          /\ ~Called("DeleteNamespace") /\ ~Called("DeleteApplication")
          /\ ExpiryTested =>
                (pc' = "handleExpiration_StatusUpdate"
                 /\ ephApp'.status.phase = "Expiring")
          /\ (pc = "handleExpiration_StatusUpdate" /\ CalledOk("StatusUpdate")) =>
                (pc' = "handleExpiration_Delete" /\ rec'.status.phase = "Expiring")
          /\ CalledOk("DeleteRecord") =>
                (rec'.exists /\ rec'.deletionTimestamp /\ rec'.finalizer)
          /\ (Fetched /\ rec.deletionTimestamp /\ rec.finalizer) =>
                pc' = "handleDeletion_RemoveFinalizer"
          /\ CalledOk("RemoveFinalizer") => ~rec'.exists
      ]_vars

\* a record created already expired is gone: its first pass wrote Expiring,
\* the teardown pass removed the finalizer, and nothing was ever created
C24_Witness ==
    /\ ExpiredFromTheStart
    /\ ~rec.exists
    /\ rec.status.phase = "Expiring"
    /\ pc = "idle" /\ result.kind = "ok"
    /\ calls = <<Call("Get", NoErr), Call("RemoveFinalizer", NoErr)>>
    /\ createdNs = {} /\ createdApps = {}

\* C25: a request whose path starts with /api/ reaches a handler only after
\* its header was of the form "Bearer <token>" and the cluster
\* authenticated that token; without an Authorization header, with a
\* header of another form, or with a token the cluster does not
\* authenticate, the answer is 401 and no handler runs.  /healthz and
\* /readyz are served whatever the header.
C25_ApiRequiresAuthenticatedToken ==
    http.pc = "served" =>
        LET api == Len(http.path) >= 2 /\ http.path[1] = "api"
            wellFormed == Len(http.header) >= 2 /\ http.header[1] = "Bearer"
            authenticated ==
                wellFormed /\ Tail(http.header) \in AuthenticatedTokens
        IN  /\ (api /\ http.handler # "none") =>
                  (authenticated /\ http.review = "authenticated")
            /\ (api /\ ~authenticated) =>
                  (http.status = 401 /\ http.handler = "none")
            /\ http.path = <<"healthz">> =>
                  (http.handler = "HealthCheck" /\ http.status = 200
                   /\ http.review = "none")
            /\ http.path = <<"readyz">> =>
                  (http.handler = "ReadyCheck" /\ http.status = 200
                   /\ http.review = "none")

\* a request for the metrics with a token the cluster rejects was answered
\* 401 and reached no handler
C25_Witness ==
    /\ http.pc = "served"
    /\ http.path = <<"api", "v1", "metrics">>
    /\ http.header = <<"Bearer", "bad">>
    /\ http.review = "rejected"
    /\ http.status = 401
    /\ http.handler = "none"

\* the characters of a DNS label: lowercase letters, digits and hyphens
LabelChars ==
    {"a", "b", "c", "d", "e", "g", "h", "i", "l", "m", "n", "o", "p", "r",
     "s", "t", "y", "1", "-"}

NameGenerated == applied.fn \in {"GenerateNamespace", "GenerateNamespaceName"}

\* C26: whatever name hint the name generator is given (longer than 63
\* characters, upper case, characters other than letters, digits, hyphens
\* and underscores), the name it returns has at most 63 characters, all of
\* them lowercase letters, digits or hyphens, and the hint My_App gives
\* my-app.
C26_NameIsLabel ==
    NameGenerated =>
        /\ Len(applied.out) <= 63
        /\ \A i \in 1..Len(applied.out) : applied.out[i] \in LabelChars
        /\ (applied.fn = "GenerateNamespaceName" /\ applied.in = <<MyApp>>)
               => applied.out = <<"m", "y", "-", "a", "p", "p">>

\* the summary the documentation gives for one secret reference
DocumentedSummary(secret) ==
    IF secret.values # NoData
    THEN Chars[secret.name] \o <<" ", "(", "i", "n", "l", "i", "n", "e", ")">>
    ELSE secret.sourceNamespace \o <<"/">> \o Chars[secret.name]
             \o <<" ", "-", ">", " ">> \o Chars[targetNameOf(secret)]

\* the step is the status write that ends a successful Pending pass
PendingPassSucceeds ==
    pc = "handlePendingPhase_StatusUpdate" /\ CalledOk("StatusUpdate")

\* C27: the status written at the end of a successful Pending pass lists in
\* copiedSecrets one summary per secret reference, in order:
\* "<sourceNamespace>/<name> -> <targetName>" for a copied reference and
\* "<name> (inline)" for an inline one.
C27_CopiedSecretsSummarised ==
    [][PendingPassSucceeds =>
          rec'.status.copiedSecrets.items =
              [i \in 1..Len(rec'.secrets) |-> DocumentedSummary(rec'.secrets[i])]]_vars

SummaryBuilt == applied.fn = "buildCopiedSecretsList"

Arrow == <<" ", "-", ">", " ">>

\* C28: buildCopiedSecretsList returns nil for an empty list of references
\* and otherwise one entry per reference, in the order of the list, each
\* "<sourceNamespace>/<name> -> <target>" where target is targetName if set
\* and name otherwise; an inline reference without a source namespace gives
\* "/<name> -> <name>".
C28_SummaryPerReference ==
    SummaryBuilt =>
        LET secrets == applied.in
            out == applied.out
        IN  /\ Len(secrets) = 0 => out.isNil
            /\ Len(secrets) > 0 =>
                   /\ ~out.isNil
                   /\ Len(out.items) = Len(secrets)
            /\ \A i \in 1..Len(secrets) :
                   LET ref == secrets[i]
                       target == IF ref.targetName = "" THEN Chars[ref.name]
                                 ELSE Chars[ref.targetName]
                   IN  /\ out.items[i] =
                              ref.sourceNamespace \o <<"/">> \o Chars[ref.name]
                                  \o Arrow \o target
                       /\ (ref.values # NoData /\ ref.sourceNamespace = EmptyStr
                               /\ ref.targetName = "")
                              => out.items[i] =
                                     <<"/">> \o Chars[ref.name] \o Arrow
                                         \o Chars[ref.name]

\* a renamed copy followed by an inline reference has been summarised
C28_Witness ==
    /\ SummaryBuilt
    /\ applied.in = <<SecretDbRenamed, SecretInline>>
    /\ applied.out.items[1] =
           <<"i", "n", "f", "/", "d", "b", " ", "-", ">", " ",
             "d", "b", "-", "c", "o", "p", "y">>

\* a pass has returned without error on a record it found neither being
\* deleted nor expired
ReturnedOnLiveRecord ==
    /\ pc = "idle"
    /\ Len(calls) > 0
    /\ calls[1] = Call("Get", NoErr)
    /\ result.kind = "ok"
    /\ ~ephApp.deletionTimestamp
    /\ ~isExpired(ephApp, now)

\* C29: a pass that returns without error on a record that is neither being
\* deleted nor expired asks to be run again after a strictly positive delay:
\* 30 seconds when it leaves the record in phase Creating, the reconcile
\* interval when it leaves it Active or Failed.
C29_LivePassRequeues ==
    ReturnedOnLiveRecord =>
        /\ result.requeueAfter > 0
        /\ ephApp.status.phase = "Creating"
               => result.requeueAfter = RequeueCreating
        /\ ephApp.status.phase \in {"Active", "Failed"}
               => result.requeueAfter = ReconcileInterval

\* the step is the Get of a pass that finds the record in phase Failed,
\* neither expired nor being deleted
FailedFetched ==
    /\ Fetched
    /\ rec.status.phase = "Failed"
    /\ ~rec.deletionTimestamp
    /\ ~isExpired(rec, now)

\* C30: a pass on a record in phase Failed that is neither expired nor being
\* deleted ends at once without error: it makes no call after its Get, so it
\* creates, updates and deletes nothing and writes no status, and the phase
\* stays Failed; the phase of a Failed record changes only to Expiring, in
\* the status write of an expiration pass, or the record is deleted.
C30_FailedIsLeftAlone ==
    [][/\ FailedFetched =>
              /\ pc' = "idle"
              /\ result'.kind = "ok"
              /\ UNCHANGED <<rec, namespaces, argoApps, request, createdNs,
                             createdApps>>
       /\ (rec.exists /\ rec.status.phase = "Failed"
               /\ rec'.status.phase # "Failed")
              => /\ rec'.status.phase = "Expiring"
                 /\ pc = "handleExpiration_StatusUpdate"
                 /\ isExpired(ephApp, now)]_vars

\* a pass has found the record Failed, not expired and not being deleted,
\* and has returned
C30_Witness ==
    /\ pc = "idle"
    /\ calls = <<Call("Get", NoErr)>>
    /\ rec.exists /\ rec.status.phase = "Failed"
    /\ ~rec.deletionTimestamp /\ ~isExpired(rec, now)
    /\ result = [kind |-> "ok", err |-> NoErr, requeueAfter |-> ReconcileInterval]

TeardownOps == {"Get", "DeleteApplication", "DeleteNamespace", "RemoveFinalizer"}

\* the step is a call of a pass whose Get returned the record with a
\* deletion timestamp
TeardownPassStep ==
    /\ calls' # calls
    /\ calls'[1] = Call("Get", NoErr)
    /\ ephApp'.deletionTimestamp

\* the step is the Get of a pass that does not find the record
NotFoundFetched ==
    /\ pc = "idle"
    /\ ~rec.exists
    /\ calls' # calls
    /\ calls' = <<Call("Get", ErrNotFound)>>

\* C31: a pass that fetches a record with a deletion timestamp runs only
\* teardown, whatever the phase and whether or not the record is expired:
\* its calls are the two deletes and the finalizer removal, it adds no
\* finalizer, creates no namespace and no application and writes no status;
\* a pass that does not find the record returns success and changes nothing.
C31_DeletedRunsOnlyTeardown ==
    [][/\ TeardownPassStep =>
              /\ calls'[Len(calls')].op \in TeardownOps
              /\ rec'.status = rec.status
              /\ rec'.finalizer => rec.finalizer
              /\ namespaces' \subseteq namespaces
              /\ DOMAIN argoApps' \subseteq DOMAIN argoApps
              /\ request' = request
       /\ NotFoundFetched =>
              /\ pc' = "idle"
              /\ result' = [kind |-> "ok", err |-> NoErr, requeueAfter |-> 0]
              /\ UNCHANGED <<rec, namespaces, argoApps, request>>]_vars

\* teardown is under way on an expired record in phase Active
C31_Witness ==
    /\ pc = "handleDeletion_DeleteNamespace"
    /\ calls[1] = Call("Get", NoErr)
    /\ ephApp.deletionTimestamp
    /\ ephApp.status.phase = "Active"
    /\ isExpired(ephApp, now)

\* the phases the switch of Reconcile has a case for
DispatchedPhases == {"", "Pending", "Creating", "Active", "Failed"}

\* C32: the phase switch never takes its default branch: a pass that gets to
\* the switch (record not being deleted, not expired) finds a persisted phase
\* that is unset, Pending, Creating, Active or Failed, never Expiring.
C32_DispatchKnowsThePhase ==
    [][(ExpiryTested /\ ~isExpired(ephApp', now))
          => ephApp'.status.phase \in DispatchedPhases]_vars

ConditionSet == applied.fn = "setCondition"

\* the positions of the conditions of a type
PositionsOf(conds, type) == {i \in 1..Len(conds) : conds[i].type = type}

\* C33: after any sequence of condition updates the conditions hold at most
\* one entry per type: an update of a type that is present replaces that
\* entry where it is and leaves the other entries and their order as they
\* were, and an update of a new type appends one entry at the end.
C33_OneConditionPerType ==
    ConditionSet =>
        LET old == applied.in.conds
            type == applied.in.type
            new == applied.out
        IN  /\ \A t \in ConditionTypes : Cardinality(PositionsOf(new, t)) <= 1
            /\ PositionsOf(new, type) # {}
            /\ \A i \in PositionsOf(new, type) :
                   new[i].status = applied.in.status
            /\ IF PositionsOf(old, type) # {}
               THEN /\ Len(new) = Len(old)
                    /\ \A i \in 1..Len(old) :
                           /\ new[i].type = old[i].type
                           /\ old[i].type # type => new[i] = old[i]
               ELSE /\ Len(new) = Len(old) + 1
                    /\ SubSeq(new, 1, Len(old)) = old
                    /\ new[Len(new)].type = type

\* the first of three conditions has been replaced by one of another status
C33_Witness ==
    /\ ConditionSet
    /\ Len(applied.in.conds) = 3
    /\ applied.in.conds[1].type = applied.in.type
    /\ applied.in.conds[1].status # applied.in.status
    /\ applied.out[1].status = applied.in.status

PendingSites ==
    {"handlePendingPhase_CreateNamespace", "handlePendingPhase_CreateApplication",
     "handlePendingPhase_StatusUpdate"}

\* the step is a call of a Pending pass that runs although an earlier pass
\* has created the namespace and the application: the status was not written
PendingRerunStep ==
    /\ rec.exists
    /\ rec.status.phase \in {"", "Pending"}
    /\ createdNs # {}
    /\ createdApps # {}
    /\ pc \in PendingSites
    /\ calls' # calls

LastRes == calls'[Len(calls')].res

\* C34: a Pending pass that runs again after an earlier Pending pass created
\* the namespace and the application without getting its status written
\* resolves the same namespace name, creates no second namespace and no
\* second application, and, its own calls not failing, goes on to status
\* Creating, not Failed.
C34_PendingIsReentrant ==
    [][PendingRerunStep =>
          /\ namespaces' = namespaces
          /\ DOMAIN argoApps' = DOMAIN argoApps
          /\ (pc = "handlePendingPhase_CreateNamespace"
                 /\ LastRes = ErrAlreadyExists)
                => pc' = "handlePendingPhase_CreateApplication"
          /\ (pc = "handlePendingPhase_CreateApplication" /\ LastRes = NoErr)
                => /\ pc' = "handlePendingPhase_StatusUpdate"
                   /\ ephApp'.status.phase = "Creating"
                   /\ ephApp'.status.namespace \in createdNs
                   /\ ephApp'.status.argoApplicationName \in createdApps
          /\ (pc = "handlePendingPhase_StatusUpdate" /\ LastRes = NoErr)
                => /\ rec'.status.phase = "Creating"
                   /\ rec'.status.namespace \in createdNs]_vars

\* the re-run found the namespace present and has written Creating
C34_Witness ==
    /\ pc = "idle"
    /\ Len(calls) > 0
    /\ LastCall = Call("StatusUpdate", NoErr)
    /\ \E i \in 1..Len(calls) : calls[i] = Call("CreateNamespace", ErrAlreadyExists)
    /\ rec.status.phase = "Creating"
    /\ Cardinality(namespaces) = 1
    /\ Cardinality(DOMAIN argoApps) = 1

\* the step is caller t opening a connection from c.argocdClient
OpensConnection(t) ==
    /\ thr[t].pc \in {"idle", "done"}
    /\ thr'[t].pc = "request"
    /\ thr'[t].conn = argocdClient

\* the step replaces c.argocdClient
ReplacesClient == argocdClient' # argocdClient

\* C35: the shared client is read and written only by a caller that holds
\* tokenLock: a caller that opens a connection from it holds the lock, so no
\* caller opens one while another caller holds the lock to replace the
\* client, and a caller that replaces it holds the lock.
C35_ClientGuardedByLock ==
    [][/\ \A t \in Callers : OpensConnection(t) => tokenLock = t
       /\ ReplacesClient => tokenLock \in Callers]_vars

\* two different records that exist
LivePairs ==
    {p \in FleetKeys \X FleetKeys :
        p[1] # p[2] /\ fleet[p[1]].exists /\ fleet[p[2]].exists}

\* C36: two live records never record the same namespace or the same
\* application name in their status, so the teardown of one record never
\* deletes a namespace or an application that another live record names in
\* its status.
C36_RecordsShareNothing ==
    \A p \in LivePairs :
        LET a == fleet[p[1]].status
            b == fleet[p[2]].status
        IN  /\ a.namespace # EmptyStr => a.namespace # b.namespace
            /\ a.argoApplicationName # EmptyStr
                   => a.argoApplicationName # b.argoApplicationName

\* C37: in every persisted status, phase Creating or Active comes with a
\* non-empty status.namespace and a non-empty application name, and phase
\* Active comes with lastSyncTime set.
C37_ProvisionedPhasesNameTheirResources ==
    rec.exists =>
        /\ rec.status.phase \in {"Creating", "Active"}
               => /\ rec.status.namespace # EmptyStr
                  /\ rec.status.argoApplicationName # EmptyStr
        /\ rec.status.phase = "Active" => rec.status.lastSyncTime # NoTime

\* an Active status is persisted
C37_Witness ==
    /\ rec.exists
    /\ rec.status.phase = "Active"
    /\ rec.status.namespace = GenerateNamespace(DefaultPrefix, RecName)
    /\ rec.status.argoApplicationName = RecName
    /\ rec.status.lastSyncTime # NoTime

\* the conditions of type Ready in a status, by their status
ReadyStatuses(st) ==
    {st.conditions[i].status :
        i \in {j \in 1..Len(st.conditions) : st.conditions[j].type = "Ready"}}

\* C38: in every persisted status the Ready condition is True exactly when
\* the phase is Active: a status of phase Creating, Failed or Expiring holds
\* Ready=False, written in the update that set the phase, and a status that
\* left Active holds no Ready=True.
C38_ReadyIffActive ==
    rec.exists =>
        /\ "True" \in ReadyStatuses(rec.status) <=> rec.status.phase = "Active"
        /\ rec.status.phase \in {"Creating", "Failed", "Expiring"}
               => ReadyStatuses(rec.status) = {"False"}

\* a record that was Active has been marked Expiring
C38_Witness ==
    /\ rec.exists
    /\ rec.status.phase = "Expiring"
    /\ rec.status.lastSyncTime # NoTime
    /\ ReadyStatuses(rec.status) = {"False"}

ExpirationSites == {"handleExpiration_StatusUpdate", "handleExpiration_Delete"}

\* C39: the reconciler writes phase Expiring, and deletes the record, only
\* in a pass in which now is after the expirationDate that pass read; the
\* pass reads the date the record holds at its Get, so a record whose date
\* was moved into the future before the pass is neither marked Expiring nor
\* deleted by it.
C39_ExpiresOnlyWhenPastTheDate ==
    [][/\ (rec'.status.phase = "Expiring" /\ rec.status.phase # "Expiring")
              => /\ pc = "handleExpiration_StatusUpdate"
                 /\ now > ephApp.expirationDate
       /\ Called("DeleteRecord") => now > ephApp.expirationDate
       /\ pc' \in ExpirationSites => now > ephApp'.expirationDate
       /\ Fetched => ephApp'.expirationDate = rec.expirationDate
       /\ (Fetched /\ now <= rec.expirationDate)
              => pc' \notin ExpirationSites]_vars

\* a record that had been marked Expiring got its date moved into the
\* future, and the next pass neither marked nor deleted it
C39_Witness ==
    /\ pc = "idle"
    /\ calls = <<Call("Get", NoErr)>>
    /\ rec.exists /\ ~rec.deletionTimestamp
    /\ rec.finalizer
    /\ rec.status.phase = "Expiring"
    /\ now <= rec.expirationDate

LookupSites ==
    {"handleCreatingPhase_GetApplication", "handleActivePhase_GetApplication"}

\* the step is a lookup of the application, in Creating or Active, that
\* fails with an error other than not-found
LookupFailsTransiently ==
    /\ pc \in LookupSites
    /\ Called("GetApplication")
    /\ LastRes # NoErr
    /\ LastRes.reason # "NotFound"

\* C40: when the lookup of the application in Creating or Active fails with
\* an error other than not-found, the pass returns that error to the
\* scheduler and leaves the persisted status as it was, so that the next
\* pass retries from the same phase.
C40_TransientLookupFailureIsReturned ==
    [][LookupFailsTransiently =>
          /\ pc' = "idle"
          /\ result'.kind = "err"
          /\ result'.err = LastRes
          /\ rec'.status = rec.status]_vars


====
